---- MODULE Spec2Model ----
(***************************************************************************)
(* The AutoTrade orchestrator (backend/autotrade/orchestrator.py) with the *)
(* SharedState container and the CycleLogger (shared_state.py), run on a   *)
(* single asyncio event loop.                                              *)
(*                                                                         *)
(* No agent's run() contains an await, so an agent runs to its end inside  *)
(* one step of the event loop.  A coroutine is suspended only at           *)
(*   - asyncio.gather (the parallel stage's join),                         *)
(*   - asyncio.sleep in the scheduler loop,                                *)
(*   - the completion callback (it may await a socket),                    *)
(*   - await self._scheduler_task in stop().                               *)
(* The event loop is the FIFO queue `ready` of handles (call_soon order);  *)
(* one step of the model pops the head and runs that task to its next      *)
(* suspension.  asyncio.CancelledError is a BaseException (Python >= 3.8): *)
(* no `except Exception` of the orchestrator catches it.                   *)
(***************************************************************************)
EXTENDS Integers, Sequences, FiniteSets, TLC

\* ---- bounds of the model ----
MaxClock == 3
MaxCycles == 2
MaxFaults == 1
MaxStarts == 2
MaxStops == 1
MaxRunOnce == 1
MaxApiCycles == 2
MaxRecords == 2
MaxApiClock == 1
MaxOptions == 3
MaxOi == 2
MaxTechIndices == 1
MaxPcrIndices == 2
MaxTopActive == 1
MaxQuotes == 2
MaxActivityCycles == 6
MaxScored == 11
MaxMixed == 4

\* ---- program constants ----
\* the clock counts half seconds; strftime("%Y%m%d_%H%M%S") drops the fraction
SubSec == 2
MARKET_OPEN == (9 * 3600 + 15 * 60) * SubSec
MARKET_CLOSE == (15 * 3600 + 30 * 60) * SubSec
DEFAULT_INTERVAL_MINS == 5

\* the moments of the day the clock walks through, in half seconds:
\* 09:14:59.5, 09:15:00.0, 15:30:00.0, 15:30:00.5
TimePoints ==
  << MARKET_OPEN - 1, MARKET_OPEN, MARKET_CLOSE, MARKET_CLOSE + 1 >>
DayLen == 24 * 3600 * SubSec

\* datetime.now() at clock tick c: the day number and the time of day
NowDay(c) == c \div Len(TimePoints)
NowTime(c) == TimePoints[(c % Len(TimePoints)) + 1]
NowAbs(c) == NowDay(c) * DayLen + NowTime(c)

\* datetime.now().strftime("%Y%m%d_%H%M%S"): the second, fraction dropped
Strftime(c) == NowAbs(c) \div SubSec

\* (mutant) the upper end of the window is not checked
InMarketHoursNoClose(now) == MARKET_OPEN <= now
\* self.MARKET_OPEN <= now <= self.MARKET_CLOSE
InMarketHours(now) == MARKET_OPEN <= now /\ now <= MARKET_CLOSE

\* ---- the agents ----
DataAgent == "data_fetcher"
\* (mutant) the Decision task handed to the gather with the analysis tasks
ParallelAgentsWithDecision ==
  << "sentiment", "technical", "risk_metrics", "active_trades",
     "decision_maker" >>
\* (mutant) the Risk task handed to the gather before the Sentiment task
ParallelAgentsRiskFirst ==
  << "risk_metrics", "technical", "sentiment", "active_trades" >>
\* the coroutines of asyncio.gather, in the order of its arguments
ParallelAgents == << "sentiment", "technical", "risk_metrics", "active_trades" >>
DecisionAgent == "decision_maker"
MonitorAgent == "monitor"
AfterJoinAgents == << DecisionAgent, MonitorAgent >>
AgentNames ==
  {DataAgent, DecisionAgent, MonitorAgent}
    \cup {ParallelAgents[i] : i \in 1..Len(ParallelAgents)}

\* the key under which an agent's run() stores its result (shared_state.set)
ResultKey(name) ==
  CASE name = "data_fetcher" -> "market_data"
    [] name = "sentiment" -> "sentiment"
    [] name = "technical" -> "technicals"
    [] name = "risk_metrics" -> "risk_metrics"
    [] name = "active_trades" -> "active_trades"
    [] name = "decision_maker" -> "decision"
    [] OTHER -> "monitor"
DataKeys == {ResultKey(n) : n \in AgentNames}

\* ---- SharedState (shared_state.py) ----
\* _state as a record: keys[k] is 0 when k is absent, else the number of the
\* cycle whose agent wrote it; owner is the number of the cycle whose
\* start_cycle() built this mapping (both are bookkeeping of the model).
NoOutputs == [a \in AgentNames |-> "none"]
NoKeys == [k \in DataKeys |-> 0]

\* SharedState.__init__
EmptyState ==
  [ cycle_id |-> -1, started |-> FALSE, keys |-> NoKeys, outputs |-> NoOutputs,
    completed |-> << >>, errors |-> << >>, stamped |-> FALSE, owner |-> 0 ]

\* SharedState.start_cycle at clock c, called by cycle number n
start_cycle(c, n) ==
  [ cycle_id |-> Strftime(c), started |-> TRUE, keys |-> NoKeys,
    outputs |-> NoOutputs, completed |-> << >>, errors |-> << >>,
    stamped |-> FALSE, owner |-> n ]

\* SharedState.set(key, value), the value tagged with its writer
set(st, key, n) == [st EXCEPT !.keys[key] = n]

\* SharedState.record_agent_output
record_agent_output(st, name, status) ==
  [st EXCEPT !.outputs[name] = status,
             !.completed = Append(@, name),
             !.errors = IF status = "error" THEN Append(@, name) ELSE @]

\* SharedState.end_cycle: stamps cycle_duration_ms when _cycle_start is set
end_cycle(st) == [st EXCEPT !.stamped = @ \/ st.started]

\* ---- CycleLogger (shared_state.py) ----
\* cycles: cycle_id -> row; agent_outputs: the rows in insertion order.
\* Row fields n (inserting cycle) and of (the invoking cycle's own cycle_id)
\* are bookkeeping of the model.
EmptyDb == [ cycles |-> << >>, agent_outputs |-> << >>, oi_history |-> << >> ]

\* the UNIQUE constraint on cycles.cycle_id
cycle_id_is_unique(db, cid) == cid \notin DOMAIN db.cycles

\* CycleLogger.log_cycle_start (the insert succeeded)
log_cycle_start(db, cid, n) ==
  [db EXCEPT !.cycles =
     (cid :> [status |-> "running", stamped |-> FALSE, error |-> FALSE,
              n |-> n]) @@ @]

\* the status log_cycle_end writes for a final state carrying an error or not
CycleEndStatus(hasError) == "completed"

\* CycleLogger.log_cycle_end: UPDATE ... WHERE cycle_id=?
log_cycle_end(db, cid, state, hasError) ==
  IF cid \in DOMAIN db.cycles
    THEN [db EXCEPT !.cycles[cid] =
            [@ EXCEPT !.status = CycleEndStatus(hasError),
                      !.stamped = state.stamped,
                      !.error = hasError]]
    ELSE db

\* CycleLogger.get_cycle_detail: SELECT * FROM cycles WHERE cycle_id=?; the
\* row as a dict, or None (found FALSE)
get_cycle_detail(db, cid) ==
  IF cid \in DOMAIN db.cycles
    THEN [ found |-> TRUE, cycle_id |-> cid,
           status |-> db.cycles[cid].status,
           duration_ms |-> db.cycles[cid].stamped ]
    ELSE [ found |-> FALSE, cycle_id |-> cid, status |-> "",
           duration_ms |-> FALSE ]

\* CycleLogger.log_agent_output
log_agent_output(db, cid, name, status, n, own) ==
  [db EXCEPT !.agent_outputs =
     Append(@, [cycle_id |-> cid, agent_name |-> name, status |-> status,
                n |-> n, of |-> own])]

\* ---- the task wrapper (orchestrator.py, _run_agent) ----
\* events of one cycle, in order (bookkeeping of the model)
Ev(e, a, s) == [e |-> e, a |-> a, s |-> s]

\* the status of the AgentOutput built for a task that raised or returned
OutputStatus(raised) == IF raised THEN "error" ELSE "success"

\* what run() of an agent reads from SharedState before it computes: the Risk
\* task reads the 'sentiment' key (written by its own cycle, by another one,
\* or missing), the Monitor task reads cycle_duration_ms (stamped by
\* end_cycle, or missing)
Reads(st, n, name) ==
  IF name = "risk_metrics"
    THEN << Ev("read", name,
               IF st.keys["sentiment"] = n THEN "own"
               ELSE IF st.keys["sentiment"] = 0 THEN "missing" ELSE "other") >>
  ELSE IF name = "monitor"
    THEN << Ev("read", name, IF st.stamped THEN "stamped" ELSE "unstamped") >>
  ELSE << >>

\* m = [st, db, ev, esc]; cycle number n with local cycle_id own runs agent
\* `name`; raised: run_fn raised; logFails: log_agent_output raised, which
\* lets the exception escape the wrapper (esc).
_run_agent(m, n, own, name, raised, logFails) ==
  LET status == OutputStatus(raised)
      st1 == IF raised THEN m.st ELSE set(m.st, ResultKey(name), n)
      st2 == record_agent_output(st1, name, status)
      db2 == IF logFails THEN m.db
             ELSE log_agent_output(m.db, st2.cycle_id, name, status, n, own)
  IN [ st |-> st2, db |-> db2,
       ev |-> m.ev \o << Ev("start", name, "") >> \o Reads(m.st, n, name) \o
                      << Ev("ran", name, IF raised THEN "raised" ELSE "returned"),
                         Ev("rec", name, status),
                         IF logFails THEN Ev("escape", name, "")
                         ELSE Ev("log", name, status) >>,
       esc |-> logFails ]

\* the number of faults an outcome <<raised, logFails>> spends
Cost(o) == (IF o[1] THEN 1 ELSE 0) + (IF o[2] THEN 1 ELSE 0)
Outcomes == BOOLEAN \X BOOLEAN

\* ---- run_single_cycle (orchestrator.py) ----
NoResult ==
  [ status |-> "none", cycle_id |-> -1, errors |-> << >>,
    agents_completed |-> << >> ]

\* a statement of the try block: skipped once an exception is on its way to
\* the except clause
AwaitAgent(m, n, own, name, o) ==
  IF m.esc THEN m ELSE _run_agent(m, n, own, name, o[1], o[2])

\* the end of run_single_cycle: the Finalize stage (lines 131-173) or the
\* except clause (lines 175-186); fin = [st, db, ev, result]
Finalize(m, own) ==
  LET final_state == end_cycle(m.st)
      db2 == log_cycle_end(m.db, own, final_state, m.esc)
  IN [ st |-> final_state, db |-> db2,
       ev |-> m.ev \o << Ev("end_cycle", "",
                            IF final_state.stamped THEN "stamped"
                            ELSE "unstamped"),
                         Ev("log_cycle_end", "",
                            IF m.esc THEN "error" ELSE "completed") >>,
       result |->
         IF m.esc
           THEN [ status |-> "error", cycle_id |-> own, errors |-> << >>,
                  agents_completed |-> << >> ]
           ELSE [ status |-> "completed", cycle_id |-> own,
                  errors |-> final_state.errors,
                  agents_completed |-> final_state.completed ] ]

\* (mutant) the gather called without return_exceptions
return_exceptions_default == FALSE
\* asyncio.gather(..., return_exceptions=True)
return_exceptions == TRUE

\* whether an exception that escaped a child's wrapper is raised into the
\* cycle by the join
GatherRaises(esc) == esc /\ ~return_exceptions

\* ---- SharedState as an object graph (shared_state.py) ----
\* The operators above keep the lists of _state by value.  Here _state maps
\* the keys it holds to values, a list value being the identity of a list
\* object in the heap, so that two mappings can hold the same list.
BaseKeys == {"cycle_id", "cycle_start", "agents_completed", "errors"}
ApiDataKeys == {"market_data", "decision"}
ApiAgents == {DataAgent, MonitorAgent}
\* f"agent_{output.agent_name}"
AgentKey(name) ==
  CASE name = DataAgent -> "agent_data_fetcher"
    [] name = MonitorAgent -> "agent_monitor"

\* a value that is not a list (v: the value, s: a status where it has one)
Scalar(v, s) == [list |-> FALSE, v |-> v, s |-> s]
\* the list object number i of the heap
ListRef(i) == [list |-> TRUE, v |-> i, s |-> ""]
\* {}
NoDict == << >>
\* None
None == -1
\* d[k] = x
Put(d, k, x) == (k :> x) @@ d

\* SharedState.__init__; n counts the calls of start_cycle (bookkeeping)
SharedState_init ==
  [state |-> NoDict, cycle_id |-> None, cycle_start |-> None, n |-> 0]

\* (mutant) start_cycle writing its four keys into the dict of the cycle before
start_cycle_in_place(o, h, c) ==
  [ o |-> [ state |->
              ("cycle_id" :> Scalar(Strftime(c), "")) @@
              ("cycle_start" :> Scalar(c, "")) @@
              ("agents_completed" :> ListRef(Len(h) + 1)) @@
              ("errors" :> ListRef(Len(h) + 2)) @@ o.state,
            cycle_id |-> Strftime(c), cycle_start |-> c, n |-> o.n + 1 ],
    h |-> h \o << << >>, << >> >> ]
\* SharedState.start_cycle at clock c: a new dict with two new lists
SharedState_start_cycle(o, h, c) ==
  [ o |-> [ state |->
              ("cycle_id" :> Scalar(Strftime(c), "")) @@
              ("cycle_start" :> Scalar(c, "")) @@
              ("agents_completed" :> ListRef(Len(h) + 1)) @@
              ("errors" :> ListRef(Len(h) + 2)),
            cycle_id |-> Strftime(c), cycle_start |-> c, n |-> o.n + 1 ],
    h |-> h \o << << >>, << >> >> ]

\* SharedState.set
SharedState_set(o, key, value) == [o EXCEPT !.state = Put(@, key, value)]

\* SharedState.get
SharedState_get(o, key, default) ==
  IF key \in DOMAIN o.state THEN o.state[key] ELSE default

\* SharedState.update: self._state.update(data)
SharedState_update(o, data) == [o EXCEPT !.state = data @@ @]

\* self._state.get(key, []) followed by append(x) and self._state[key] = ...:
\* the list _state holds is appended to in place, a missing one is created
AppendInPlace(state, h, key, x) ==
  LET has == key \in DOMAIN state
      r == IF has THEN state[key].v ELSE Len(h) + 1
      h1 == IF has THEN h ELSE Append(h, << >>)
  IN [ state |-> Put(state, key, ListRef(r)),
       h |-> [h1 EXCEPT ![r] = Append(@, x)] ]

\* (mutant) a failed task goes to the failure list only
record_failed_apart(o, h, output) ==
  LET a == AppendInPlace(o.state, h,
                         IF output.status = "error" THEN "errors"
                         ELSE "agents_completed",
                         IF output.status = "error"
                           THEN [agent |-> output.agent_name,
                                 error |-> output.error]
                         ELSE output.agent_name)
  IN [o |-> [o EXCEPT !.state = a.state], h |-> a.h]
\* SharedState.record_agent_output(output),
\* output = [agent_name, status, error]
SharedState_record_agent_output(o, h, output) ==
  LET s1 == Put(o.state, AgentKey(output.agent_name),
                Scalar(o.n, output.status))
      a == AppendInPlace(s1, h, "agents_completed", output.agent_name)
      e == IF output.status = "error"
             THEN AppendInPlace(a.state, a.h, "errors",
                                [agent |-> output.agent_name,
                                 error |-> output.error])
             ELSE a
  IN [o |-> [o EXCEPT !.state = e.state], h |-> e.h]

\* SharedState.get_full_state: dict(self._state), a new mapping holding the
\* same value objects
get_full_state(o) == o.state

\* SharedState.end_cycle at clock c: the object after it, and what it returns
SharedState_end_cycle(o, c) ==
  LET s1 == IF o.cycle_start # None
              THEN Put(o.state, "cycle_duration_ms",
                       Scalar(c - o.cycle_start, ""))
              ELSE o.state
      o2 == [o EXCEPT !.state = Put(s1, "cycle_end", Scalar(c, ""))]
  IN [o |-> o2, ret |-> get_full_state(o2)]

\* what a reader of mapping d sees: every list with its items
DeepValue(d, h) ==
  [k \in DOMAIN d |->
     IF d[k].list THEN [list |-> TRUE, items |-> h[d[k].v]] ELSE d[k]]
\* the list objects mapping d holds
ListsOf(d) == {d[k].v : k \in {x \in DOMAIN d : d[x].list}}

NoSnapshot == [taken |-> FALSE, map |-> NoDict, deep |-> NoDict]

\* no function has been applied
NoInput == << >>
NoOutput == [fn |-> "none", val |-> << >>]

\* ---- tasks of the event loop ----
VARIABLES
  clock,              \* the wall clock, in ticks of TimePoints
  ready,              \* the event loop's FIFO of handles
  tasks,              \* the tasks created so far, by number
  st,                 \* orchestrator.shared_state
  db,                 \* orchestrator.cycle_logger's database
  running,            \* _running
  scheduler_task,     \* _scheduler_task: 0 for None, else a task number
  latest_result,      \* _latest_result
  cycle_count,        \* _cycle_count
  on_cycle_complete,  \* a completion callback is registered
  faults,             \* exceptions that may still be raised
  reqs,               \* calls that may still be made to start, stop, run_once
  obj,                \* a SharedState object with the identities of its lists
  heap,               \* the list objects, by identity
  snapshot,           \* what the latest end_cycle() returned
  calls,              \* the record_agent_output calls since start_cycle
  last_op,            \* the latest SharedState method called
  fn_input,           \* the argument of a function taken alone
  fn_output           \* the function applied to it and what it returned

\* the variables of the orchestrator but the clock
orchvars ==
  << ready, tasks, st, db, running, scheduler_task, latest_result,
     cycle_count, on_cycle_complete, faults, reqs >>
\* the variables of the SharedState object taken alone
apivars == << obj, heap, snapshot, calls, last_op >>
\* the variables of the functions taken alone
funvars == << fn_input, fn_output >>

vars ==
  << clock, ready, tasks, st, db, running, scheduler_task, latest_result,
     cycle_count, on_cycle_complete, faults, reqs, obj, heap, snapshot,
     calls, last_op, fn_input, fn_output >>

Handle(k, t, a) == [k |-> k, t |-> t, a |-> a]
TaskHandle(t) == Handle("task", t, 0)
InReady(t) == \E i \in 1..Len(ready) : ready[i] = TaskHandle(t)

\* kind: loop | run_once | stop.  pc: new | join | callback | sleep |
\* errsleep | await | done.  exc: how a finished task ended ("" normally);
\* at: where a cancelled task was suspended; n, cid, ev, result: the number,
\* the local cycle_id, the events and the return value of its latest cycle,
\* t0 the clock at its first line; ret_running, ret_sched: _running and
\* _scheduler_task as stop() found them when it returned.
NewTask(kind, interval) ==
  [ kind |-> kind, pc |-> "new", must_cancel |-> FALSE, n |-> 0, cid |-> -1,
    kids |-> 0, gather_exc |-> FALSE, ev |-> << >>, result |-> NoResult,
    interval |-> interval, since |-> 0, target |-> 0, exc |-> "",
    ret_running |-> FALSE, ret_sched |-> 0, at |-> "", t0 |-> 0 ]

\* the state after AutoTradeOrchestrator.__init__, with what the callers
\* and the failing parts may still do
InitWith(starts, stops, runs, f) ==
  /\ clock = 0
  /\ ready = << >>
  /\ tasks = << >>
  /\ st = EmptyState
  /\ db = EmptyDb
  /\ running = FALSE
  /\ scheduler_task = 0
  /\ latest_result = NoResult
  /\ cycle_count = 0
  /\ on_cycle_complete = FALSE
  /\ faults = f
  /\ reqs = [start |-> starts, stop |-> stops, run_once |-> runs]
  /\ obj = SharedState_init
  /\ heap = << >>
  /\ snapshot = NoSnapshot
  /\ calls = << >>
  /\ last_op = "__init__"

Head1 == IF ready = << >> THEN Handle("none", 0, 0) ELSE Head(ready)
IsHead(t) == Head1 = TaskHandle(t)

\* the callers of stop() suspended in `await self._scheduler_task` on task x
WaiterHandles(ts, x) ==
  SelectSeq([i \in 1..Len(ts) |-> TaskHandle(i)],
            LAMBDA h : /\ ts[h.t].kind = "stop"
                       /\ ts[h.t].pc = "await"
                       /\ ts[h.t].target = x)

\* run_single_cycle returned `result` to task tk at clock c: the scheduler
\* loop goes to asyncio.sleep(interval_mins * 60), a run_once caller ends
Returned(tk, result, ev, c) ==
  IF tk.kind = "loop"
    THEN [tk EXCEPT !.pc = "sleep", !.since = c, !.result = result,
                    !.ev = ev, !.kids = 0]
    ELSE [tk EXCEPT !.pc = "done", !.result = result, !.ev = ev, !.kids = 0]

\* (mutant) the loop without its `except Exception`: the exception ends it
RaisedUncaught(tk, ev, c) ==
  [tk EXCEPT !.pc = "done", !.exc = "raised", !.ev = ev,
             !.result = [NoResult EXCEPT !.status = "raised"]]
\* run_single_cycle raised: the loop's `except Exception` sleeps 30 s, the
\* exception leaves a run_once caller
Raised(tk, ev, c) ==
  IF tk.kind = "loop"
    THEN [tk EXCEPT !.pc = "errsleep", !.since = c, !.ev = ev,
                    !.result = [NoResult EXCEPT !.status = "raised"]]
    ELSE [tk EXCEPT !.pc = "done", !.exc = "raised", !.ev = ev,
                    !.result = [NoResult EXCEPT !.status = "raised"]]

\* the join is over when none of the gathered coroutines is left
gather_done(left) == left = 0

ChildHandles(t) == [i \in 1..Len(ParallelAgents) |-> Handle("child", t, i)]

\* run_single_cycle from its first line to the join (lines 89-111), run by
\* task t at clock c; o is the outcome of the Data task
CycleBegin(t, o, c) ==
  LET n == cycle_count + 1
      own == Strftime(c)
      st1 == start_cycle(c, n)
      tk == [tasks[t] EXCEPT !.n = n, !.cid = own, !.gather_exc = FALSE,
                             !.t0 = c, !.result = NoResult]
      ev0 == << Ev("start_cycle", "", "") >>
  IN /\ cycle_count < MaxCycles
     /\ cycle_count' = n
     /\ IF ~cycle_id_is_unique(db, own)
          THEN \* log_cycle_start raises sqlite3.IntegrityError
               /\ o = << FALSE, FALSE >>
               /\ st' = st1
               /\ db' = db
               /\ tasks' = [tasks EXCEPT ![t] = Raised(tk, ev0, c)]
               /\ ready' = Tail(ready)
               /\ UNCHANGED << latest_result, faults >>
          ELSE LET m0 == [ st |-> st1, db |-> log_cycle_start(db, own, n),
                           ev |-> ev0, esc |-> FALSE ]
                   m1 == AwaitAgent(m0, n, own, DataAgent, o)
                   fin == Finalize(m1, own)
               IN /\ Cost(o) <= faults
                  /\ faults' = faults - Cost(o)
                  /\ IF m1.esc
                       THEN /\ st' = fin.st
                            /\ db' = fin.db
                            /\ latest_result' = fin.result
                            /\ tasks' = [tasks EXCEPT ![t] =
                                           Returned(tk, fin.result, fin.ev, c)]
                            /\ ready' = Tail(ready)
                       ELSE /\ st' = m1.st
                            /\ db' = m1.db
                            /\ tasks' = [tasks EXCEPT ![t] =
                                 [tk EXCEPT !.pc = "join", !.ev = m1.ev,
                                            !.kids = Len(ParallelAgents)]]
                            /\ ready' = Tail(ready) \o ChildHandles(t)
                            /\ UNCHANGED latest_result

\* one coroutine of the gather: _run_agent for ParallelAgents[i] of the
\* cycle of task t, or nothing when the gather has been cancelled
ChildStep(t, i, o) ==
  /\ Head1 = Handle("child", t, i)
  /\ LET tk == tasks[t]
         done == gather_done(tk.kids - 1)
         q == Tail(ready) \o (IF done THEN << TaskHandle(t) >> ELSE << >>)
     IN IF tk.must_cancel
          THEN /\ o = << FALSE, FALSE >>
               /\ tasks' = [tasks EXCEPT ![t] =
                    [tk EXCEPT !.kids = @ - 1,
                               !.ev = Append(@, Ev("cancelled",
                                                   ParallelAgents[i], ""))]]
               /\ ready' = q
               /\ UNCHANGED << st, db, faults >>
          ELSE LET m == _run_agent([st |-> st, db |-> db, ev |-> tk.ev,
                                    esc |-> FALSE],
                                   tk.n, tk.cid, ParallelAgents[i], o[1], o[2])
               IN /\ Cost(o) <= faults
                  /\ faults' = faults - Cost(o)
                  /\ st' = m.st
                  /\ db' = m.db
                  /\ tasks' = [tasks EXCEPT ![t] =
                       [tk EXCEPT !.kids = @ - 1, !.ev = m.ev,
                                  !.gather_exc = @ \/ GatherRaises(m.esc)]]
                  /\ ready' = q
  /\ UNCHANGED << clock, running, scheduler_task, latest_result, cycle_count,
                  on_cycle_complete, reqs >>
  /\ UNCHANGED << apivars, funvars >>

\* _safe_callback: whether an exception of the callback leaves it
_safe_callback(raised) == FALSE

\* what the callback does when called: it returns, raises, or suspends on a
\* socket
CallbackRuns == {"returns", "raises", "suspends"}

\* the callback of the cycle of task tk has ended (raised or not) at clock c,
\* with SharedState s, database d and _latest_result latest: `return result`
\* (line 173), or the except clause if the exception got out of _safe_callback
AfterCallback(tk, s, d, latest, raised, c) ==
  LET ev1 == Append(tk.ev, Ev("callback_end", "",
                              IF raised THEN "raised" ELSE "returned"))
  IN IF _safe_callback(raised)
       THEN LET fin == Finalize([st |-> s, db |-> d, ev |-> ev1,
                                 esc |-> TRUE], tk.cid)
            IN [ tk |-> Returned(tk, fin.result, fin.ev, c), st |-> fin.st,
                 db |-> fin.db, latest |-> fin.result ]
       ELSE [ tk |-> Returned(tk, tk.result, ev1, c), st |-> s, db |-> d,
              latest |-> latest ]

\* run_single_cycle after the join (lines 113-186): Decision, Monitor,
\* Finalize, the callback; cb: what the callback does
JoinResume(t, oD, oM, cb) ==
  /\ IsHead(t)
  /\ tasks[t].pc = "join"
  /\ ~tasks[t].must_cancel
  /\ LET tk == tasks[t]
         m0 == [ st |-> st, db |-> db, ev |-> Append(tk.ev, Ev("joined", "", "")),
                 esc |-> tk.gather_exc ]
         m1 == AwaitAgent(m0, tk.n, tk.cid, DecisionAgent, oD)
         m2 == AwaitAgent(m1, tk.n, tk.cid, MonitorAgent, oM)
         fin == Finalize(m2, tk.cid)
         called == on_cycle_complete /\ fin.result.status = "completed"
         ev2 == IF called
                  THEN Append(fin.ev, Ev("callback", "", fin.result.status))
                ELSE fin.ev
         tk2 == [tk EXCEPT !.result = fin.result, !.ev = ev2, !.kids = 0]
         costCb == IF cb = "raises" THEN 1 ELSE 0
         after == AfterCallback(tk2, fin.st, fin.db, fin.result,
                                cb = "raises", clock)
     IN /\ m0.esc => oD = << FALSE, FALSE >>
        /\ m1.esc => oM = << FALSE, FALSE >>
        /\ ~called => cb = "returns"
        /\ Cost(oD) + Cost(oM) + costCb <= faults
        /\ faults' = faults - Cost(oD) - Cost(oM) - costCb
        /\ IF ~called
             THEN /\ st' = fin.st
                  /\ db' = fin.db
                  /\ latest_result' = fin.result
                  /\ tasks' = [tasks EXCEPT ![t] =
                                 Returned(tk, fin.result, ev2, clock)]
             ELSE IF cb = "suspends"
               THEN /\ st' = fin.st
                    /\ db' = fin.db
                    /\ latest_result' = fin.result
                    /\ tasks' = [tasks EXCEPT ![t] =
                                   [tk2 EXCEPT !.pc = "callback"]]
               ELSE /\ st' = after.st
                    /\ db' = after.db
                    /\ latest_result' = after.latest
                    /\ tasks' = [tasks EXCEPT ![t] = after.tk]
        /\ ready' = Tail(ready)
  /\ UNCHANGED << clock, running, scheduler_task, cycle_count,
                  on_cycle_complete, reqs >>
  /\ UNCHANGED << apivars, funvars >>

\* the callback's await is over and the callback returns or raises:
\* run_single_cycle returns its result
CallbackDone(t, raised) ==
  /\ IsHead(t)
  /\ tasks[t].pc = "callback"
  /\ ~tasks[t].must_cancel
  /\ raised => faults > 0
  /\ faults' = IF raised THEN faults - 1 ELSE faults
  /\ LET after == AfterCallback(tasks[t], st, db, latest_result, raised,
                                clock)
     IN /\ tasks' = [tasks EXCEPT ![t] = after.tk]
        /\ st' = after.st
        /\ db' = after.db
        /\ latest_result' = after.latest
  /\ ready' = Tail(ready)
  /\ UNCHANGED << clock, running, scheduler_task, cycle_count,
                  on_cycle_complete, reqs >>
  /\ UNCHANGED << apivars, funvars >>

\* ---- _scheduler_loop (orchestrator.py) ----
AtLoopHead(t) ==
  /\ IsHead(t)
  /\ tasks[t].kind = "loop"
  /\ tasks[t].pc \in {"new", "sleep", "errsleep"}
  /\ ~tasks[t].must_cancel

\* a tick that runs no cycle: `while self._running` is false and the loop
\* ends, or the time is outside the market hours and the loop sleeps
LoopIdle(t, c) ==
  /\ AtLoopHead(t)
  /\ clock' = c
  /\ IF ~running
       THEN /\ c = clock
            /\ tasks' = [tasks EXCEPT ![t] = [@ EXCEPT !.pc = "done"]]
            /\ ready' = Tail(ready) \o WaiterHandles(tasks, t)
       ELSE /\ ~InMarketHours(NowTime(c))
            /\ tasks' = [tasks EXCEPT ![t] =
                           [@ EXCEPT !.pc = "sleep", !.since = c]]
            /\ ready' = Tail(ready)
  /\ UNCHANGED << st, db, running, scheduler_task, latest_result,
                  cycle_count, on_cycle_complete, faults, reqs >>
  /\ UNCHANGED << apivars, funvars >>

\* a tick inside the market hours: await self.run_single_cycle()
LoopCycle(t, o, c) ==
  /\ AtLoopHead(t)
  /\ running
  /\ InMarketHours(NowTime(c))
  /\ clock' = c
  /\ CycleBegin(t, o, c)
  /\ UNCHANGED << running, scheduler_task, on_cycle_complete, reqs >>
  /\ UNCHANGED << apivars, funvars >>

\* the CancelledError requested by stop() is thrown at the await where the
\* loop task is suspended.  Inside the try block (sleep, join, callback) the
\* loop's `except asyncio.CancelledError: break` ends the task normally;
\* before the first step or in the except clause's sleep(30) the task ends
\* cancelled.
LoopCancelled(t) ==
  /\ IsHead(t)
  /\ tasks[t].kind = "loop"
  /\ tasks[t].must_cancel
  /\ tasks[t].pc # "join" \/ tasks[t].kids = 0
  /\ tasks' = [tasks EXCEPT ![t] =
       [@ EXCEPT !.pc = "done", !.at = tasks[t].pc,
                 !.exc = IF tasks[t].pc \in {"new", "errsleep"}
                           THEN "cancelled" ELSE ""]]
  /\ ready' = Tail(ready) \o WaiterHandles(tasks, t)
  /\ UNCHANGED << clock, st, db, running, scheduler_task, latest_result,
                  cycle_count, on_cycle_complete, faults, reqs >>
  /\ UNCHANGED << apivars, funvars >>

\* the timer of asyncio.sleep expires after the clock has moved on
TimerFire(t, c) ==
  /\ t \in 1..Len(tasks)
  /\ tasks[t].pc \in {"sleep", "errsleep"}
  /\ ~InReady(t)
  /\ c > tasks[t].since
  /\ clock' = c
  /\ ready' = Append(ready, TaskHandle(t))
  /\ UNCHANGED << tasks, st, db, running, scheduler_task,
                  latest_result, cycle_count, on_cycle_complete, faults, reqs >>
  /\ UNCHANGED << apivars, funvars >>

\* the socket the callback awaits becomes ready
CallbackIO(t) ==
  /\ t \in 1..Len(tasks)
  /\ tasks[t].pc = "callback"
  /\ ~InReady(t)
  /\ ready' = Append(ready, TaskHandle(t))
  /\ UNCHANGED << clock, tasks, st, db, running, scheduler_task,
                  latest_result, cycle_count, on_cycle_complete, faults, reqs >>
  /\ UNCHANGED << apivars, funvars >>

\* ---- run_once: a caller of run_single_cycle (main.py, autotrade_run_cycle) ----
RunOnce(t, o, c) ==
  /\ IsHead(t)
  /\ tasks[t].kind = "run_once"
  /\ tasks[t].pc = "new"
  /\ clock' = c
  /\ CycleBegin(t, o, c)
  /\ UNCHANGED << running, scheduler_task, on_cycle_complete, reqs >>
  /\ UNCHANGED << apivars, funvars >>

\* ---- start (orchestrator.py) ----
\* interval = interval_mins or self.DEFAULT_INTERVAL_MINS
IntervalOf(interval_mins) ==
  IF interval_mins = 0 THEN DEFAULT_INTERVAL_MINS ELSE interval_mins

\* (mutant) start() without its `if self._running: return`
StartCreatesAlways(isRunning) == TRUE
\* whether start() creates a scheduler loop
StartCreates(isRunning) == ~isRunning

\* the caller registers its completion callback (set_cycle_callback), then
\* calls start(i) (main.py, autotrade_start)
Start(i) ==
  /\ Head1 = Handle("start", 0, i)
  /\ on_cycle_complete' = TRUE
  /\ IF StartCreates(running)
       THEN /\ running' = TRUE
            /\ tasks' = Append(tasks, NewTask("loop", IntervalOf(i)))
            /\ scheduler_task' = Len(tasks) + 1
            /\ ready' = Append(Tail(ready), TaskHandle(Len(tasks) + 1))
       ELSE /\ ready' = Tail(ready)
            /\ UNCHANGED << running, tasks, scheduler_task >>
  /\ UNCHANGED << clock, st, db, latest_result, cycle_count, faults, reqs >>
  /\ UNCHANGED << apivars, funvars >>

\* ---- stop (orchestrator.py) ----
\* Task.cancel() on task x: a finished task is left alone; otherwise the
\* CancelledError is delivered at the task's next step, a task waiting on a
\* timer or a socket is woken, and the children of a pending gather are
\* cancelled with it (ChildStep reads must_cancel of their parent)
cancel(ts, x) ==
  IF ts[x].pc = "done" THEN ts
  ELSE [ts EXCEPT ![x] = [@ EXCEPT !.must_cancel = TRUE]]

CancelWakes(x) ==
  IF tasks[x].pc \in {"sleep", "errsleep", "callback"} /\ ~InReady(x)
    THEN << TaskHandle(x) >> ELSE << >>

\* what the caller of stop() sees of the awaited task's CancelledError:
\* `except asyncio.CancelledError: pass`
StopAbsorbs(exc) == ""

\* (mutant) stop() cancels the loop task and returns without awaiting it
StopNeverAwaits(targetDone) == FALSE
\* whether stop() suspends in `await self._scheduler_task`
StopAwaits(targetDone) == ~targetDone

StopBegin(t) ==
  /\ IsHead(t)
  /\ tasks[t].kind = "stop"
  /\ tasks[t].pc = "new"
  /\ running' = FALSE
  /\ IF scheduler_task = 0
       THEN /\ tasks' = [tasks EXCEPT ![t] = [@ EXCEPT !.pc = "done"]]
            /\ ready' = Tail(ready)
       ELSE LET x == scheduler_task
                ts == cancel(tasks, x)
            IN IF StopAwaits(tasks[x].pc = "done")
                 THEN /\ tasks' = [ts EXCEPT ![t] =
                            [@ EXCEPT !.pc = "await", !.target = x]]
                      /\ ready' = Tail(ready) \o CancelWakes(x)
                 ELSE /\ tasks' = [ts EXCEPT ![t] =
                            [@ EXCEPT !.pc = "done", !.target = x,
                                      !.exc = StopAbsorbs(tasks[x].exc),
                                      !.ret_running = FALSE,
                                      !.ret_sched = scheduler_task]]
                      /\ ready' = Tail(ready) \o CancelWakes(x)
  /\ UNCHANGED << clock, st, db, scheduler_task, latest_result, cycle_count,
                  on_cycle_complete, faults, reqs >>
  /\ UNCHANGED << apivars, funvars >>

\* the awaited loop task is done: stop() returns
StopReturn(t) ==
  /\ IsHead(t)
  /\ tasks[t].kind = "stop"
  /\ tasks[t].pc = "await"
  /\ tasks' = [tasks EXCEPT ![t] =
       [@ EXCEPT !.pc = "done",
                 !.exc = StopAbsorbs(tasks[tasks[t].target].exc),
                 !.ret_running = running,
                 !.ret_sched = scheduler_task]]
  /\ ready' = Tail(ready)
  /\ UNCHANGED << clock, st, db, running, scheduler_task, latest_result,
                  cycle_count, on_cycle_complete, faults, reqs >>
  /\ UNCHANGED << apivars, funvars >>

\* ---- the callers and the clock ----
Intervals == {0, 1}

CallStart(i) ==
  /\ reqs.start > 0
  /\ reqs' = [reqs EXCEPT !.start = @ - 1]
  /\ ready' = Append(ready, Handle("start", 0, i))
  /\ UNCHANGED << clock, tasks, st, db, running, scheduler_task,
                  latest_result, cycle_count, on_cycle_complete, faults >>
  /\ UNCHANGED << apivars, funvars >>

CallStop ==
  /\ reqs.stop > 0
  /\ reqs' = [reqs EXCEPT !.stop = @ - 1]
  /\ tasks' = Append(tasks, NewTask("stop", 0))
  /\ ready' = Append(ready, TaskHandle(Len(tasks) + 1))
  /\ UNCHANGED << clock, st, db, running, scheduler_task, latest_result,
                  cycle_count, on_cycle_complete, faults >>
  /\ UNCHANGED << apivars, funvars >>

CallRunOnce ==
  /\ reqs.run_once > 0
  /\ reqs' = [reqs EXCEPT !.run_once = @ - 1]
  /\ tasks' = Append(tasks, NewTask("run_once", 0))
  /\ ready' = Append(ready, TaskHandle(Len(tasks) + 1))
  /\ UNCHANGED << clock, st, db, running, scheduler_task, latest_result,
                  cycle_count, on_cycle_complete, faults >>
  /\ UNCHANGED << apivars, funvars >>

\* the clock is read when a step looks at it: since the last reading it
\* has stood still or moved on, up to the model's horizon
Later == clock..MaxClock

TaskIds == 1..Len(tasks)

\* ---- the specifications ----
\* the steps of a cycle, whoever runs it
CycleSteps ==
  \/ \E t \in TaskIds, i \in 1..Len(ParallelAgents), o \in Outcomes :
       ChildStep(t, i, o)
  \/ \E t \in TaskIds, oD \in Outcomes, oM \in Outcomes,
          cb \in CallbackRuns :
       JoinResume(t, oD, oM, cb)

\* the steps of the scheduler loop that start() creates
LoopSteps ==
  \/ \E i \in Intervals : CallStart(i)
  \/ \E i \in Intervals : Start(i)
  \/ \E t \in TaskIds, c \in Later : TimerFire(t, c)
  \/ \E t \in TaskIds, c \in Later : LoopIdle(t, c)
  \/ \E t \in TaskIds, o \in Outcomes, c \in Later : LoopCycle(t, o, c)
  \/ \E t \in TaskIds : CallbackIO(t)
  \/ \E t \in TaskIds, raised \in BOOLEAN : CallbackDone(t, raised)

RunOnceSteps ==
  \/ CallRunOnce
  \/ \E t \in TaskIds, o \in Outcomes, c \in Later : RunOnce(t, o, c)

StopSteps ==
  \/ CallStop
  \/ \E t \in TaskIds : StopBegin(t)
  \/ \E t \in TaskIds : StopReturn(t)
  \/ \E t \in TaskIds : LoopCancelled(t)

\* Spec: start and stop called in any order around the scheduler loop and its
\* cycles, no exception raised
Init ==
  InitWith(MaxStarts, MaxStops, 0, 0) /\ fn_input = NoInput /\ fn_output = NoOutput
Next == LoopSteps \/ StopSteps \/ CycleSteps
Spec == Init /\ [][Next]_vars

\* SpecCycles: the scheduler loop's cycles and run_once's cycles on one
\* SharedState, with tasks that raise and a log that fails
InitCycles ==
  /\ InitWith(1, 0, MaxRunOnce, MaxFaults)
  /\ fn_input = NoInput
  /\ fn_output = NoOutput
NextCycles == LoopSteps \/ RunOnceSteps \/ CycleSteps
SpecCycles == InitCycles /\ [][NextCycles]_vars

\* ---- the SharedState object on its own: any caller, any order ----
\* the TaskOutputs a caller may record
ApiOutputs ==
  {[agent_name |-> a, status |-> "success", error |-> ""] : a \in ApiAgents}
  \cup {[agent_name |-> DataAgent, status |-> "error", error |-> "boom"]}
\* the times at which a caller reads the clock
ApiLater == {c \in Later : c <= MaxApiClock}

ApiStartCycle(c) ==
  /\ obj.n < MaxApiCycles
  /\ clock' = c
  /\ LET r == SharedState_start_cycle(obj, heap, c)
     IN obj' = r.o /\ heap' = r.h
  /\ calls' = << >>
  /\ last_op' = "start_cycle"
  /\ UNCHANGED << snapshot, orchvars, funvars >>

\* run_single_cycle calls start_cycle before anything else reaches the object
InCycle == obj.n > 0

ApiSet(key) ==
  /\ InCycle
  /\ obj' = SharedState_set(obj, key, Scalar(obj.n, ""))
  /\ last_op' = "set"
  /\ UNCHANGED << clock, heap, snapshot, calls, orchvars, funvars >>

ApiUpdate ==
  /\ InCycle
  /\ obj' = SharedState_update(obj, [k \in ApiDataKeys |-> Scalar(obj.n, "")])
  /\ last_op' = "update"
  /\ UNCHANGED << clock, heap, snapshot, calls, orchvars, funvars >>

ApiRecord(output) ==
  /\ InCycle
  /\ Len(calls) < MaxRecords
  /\ LET r == SharedState_record_agent_output(obj, heap, output)
     IN obj' = r.o /\ heap' = r.h
  /\ calls' = Append(calls, output)
  /\ last_op' = "record_agent_output"
  /\ UNCHANGED << clock, snapshot, orchvars, funvars >>

ApiEndCycle(c) ==
  /\ InCycle
  /\ clock' = c
  /\ LET r == SharedState_end_cycle(obj, c)
     IN /\ obj' = r.o
        /\ snapshot' = [taken |-> TRUE, map |-> r.ret,
                        deep |-> DeepValue(r.ret, heap)]
  /\ last_op' = "end_cycle"
  /\ UNCHANGED << heap, calls, orchvars, funvars >>

InitState == InitWith(0, 0, 0, 0) /\ fn_input = NoInput /\ fn_output = NoOutput
NextState ==
  \/ \E c \in ApiLater : ApiStartCycle(c)
  \/ \E key \in ApiDataKeys : ApiSet(key)
  \/ ApiUpdate
  \/ \E output \in ApiOutputs : ApiRecord(output)
  \/ \E c \in ApiLater : ApiEndCycle(c)
SpecState == InitState /\ [][NextState]_vars


\* ---- ActiveTradesAgent (active_trades_agent.py): PCR and max pain ----
Indexes == {"nifty50", "banknifty"}
Strikes == {100, 200, 300}
OptionTypes == {"CE", "PE"}
Volumes == {1}
\* the contracts of a chain
Options ==
  [index : Indexes, strike : Strikes, type : OptionTypes, oi : 0..MaxOi,
   volume : Volumes]
SameContract(a, b) ==
  a.index = b.index /\ a.strike = b.strike /\ a.type = b.type
\* the chains: lists of at most MaxOptions contracts, each (index, strike,
\* type) at most once, as the data fetcher builds them
Chains ==
  UNION {{c \in [1..n -> Options] :
            \A i, j \in 1..n : i < j => ~SameContract(c[i], c[j])} :
         n \in 0..MaxOptions}

NoTotals == [put_oi |-> 0, call_oi |-> 0, put_vol |-> 0, call_vol |-> 0]
\* the first loop of _compute_pcr; acc is pcr_by_index
RECURSIVE PcrTotals(_, _)
PcrTotals(options, acc) ==
  IF options = << >> THEN acc
  ELSE LET opt == Head(options)
           idx == opt.index
           acc1 == IF idx \in DOMAIN acc THEN acc ELSE (idx :> NoTotals) @@ acc
           d == IF opt.type = "PE"
                  THEN [acc1[idx] EXCEPT !.put_oi = @ + opt.oi,
                                         !.put_vol = @ + opt.volume]
                  ELSE [acc1[idx] EXCEPT !.call_oi = @ + opt.oi,
                                         !.call_vol = @ + opt.volume]
       IN PcrTotals(Tail(options), [acc1 EXCEPT ![idx] = d])

\* put / call if call > 0 else 0, as a fraction
Pcr(put, call) ==
  IF call > 0 THEN [num |-> put, den |-> call] ELSE [num |-> 0, den |-> 1]
\* round(x, 3), in thousandths (no fraction of the chains here falls on a tie)
Round3(x) == (2000 * x.num + x.den) \div (2 * x.den)
\* "bearish" if oi_pcr > 1.2 else ("bullish" if oi_pcr < 0.7 else "neutral")
PcrSignal(x) ==
  IF 10 * x.num > 12 * x.den THEN "bearish"
  ELSE IF 10 * x.num < 7 * x.den THEN "bullish"
  ELSE "neutral"

\* ActiveTradesAgent._compute_pcr
_compute_pcr(options) ==
  LET pcr_by_index == PcrTotals(options, << >>)
  IN [idx \in DOMAIN pcr_by_index |->
        LET data == pcr_by_index[idx]
            oi_pcr == Pcr(data.put_oi, data.call_oi)
            vol_pcr == Pcr(data.put_vol, data.call_vol)
        IN [ oi_pcr |-> Round3(oi_pcr), volume_pcr |-> Round3(vol_pcr),
             signal |-> PcrSignal(oi_pcr) ]]

\* the first loop of _compute_max_pain; acc is by_index
RECURSIVE ByIndex(_, _)
ByIndex(options, acc) ==
  IF options = << >> THEN acc
  ELSE LET opt == Head(options)
           idx == opt.index
           acc1 == IF idx \in DOMAIN acc THEN acc ELSE (idx :> << >>) @@ acc
           sd == IF opt.strike \in DOMAIN acc1[idx] THEN acc1[idx]
                 ELSE (opt.strike :> [ce_oi |-> 0, pe_oi |-> 0]) @@ acc1[idx]
           d == IF opt.type = "CE"
                  THEN [sd[opt.strike] EXCEPT !.ce_oi = opt.oi]
                  ELSE [sd[opt.strike] EXCEPT !.pe_oi = opt.oi]
       IN ByIndex(Tail(options),
                  [acc1 EXCEPT ![idx] = [sd EXCEPT ![opt.strike] = d]])

\* sorted(strikes_data.keys())
RECURSIVE sorted(_)
sorted(S) ==
  IF S = {} THEN << >>
  ELSE LET m == CHOOSE x \in S : \A y \in S : x <= y
       IN << m >> \o sorted(S \ {m})

\* the inner loop: total_pain of test_strike over the strikes in todo
RECURSIVE TotalPain(_, _, _)
TotalPain(strikes_data, todo, test_strike) ==
  IF todo = {} THEN 0
  ELSE LET strike == CHOOSE x \in todo : TRUE
           data == strikes_data[strike]
           call == IF strike < test_strike
                     THEN (test_strike - strike) * data.ce_oi ELSE 0
           put == IF strike > test_strike
                    THEN (strike - test_strike) * data.pe_oi ELSE 0
       IN call + put + TotalPain(strikes_data, todo \ {strike}, test_strike)

\* float("inf")
Inf == -1
\* (mutant) a later strike of equal pain replaces the earlier one
PainTiesOrLess(total_pain, min_pain) ==
  IF min_pain = Inf THEN TRUE ELSE total_pain <= min_pain
\* total_pain < min_pain
PainLess(total_pain, min_pain) ==
  IF min_pain = Inf THEN TRUE ELSE total_pain < min_pain

\* the loop over the sorted strikes, carrying min_pain and max_pain_strike
RECURSIVE ScanStrikes(_, _, _, _)
ScanStrikes(strikes, strikes_data, min_pain, max_pain_strike) ==
  IF strikes = << >>
    THEN [max_pain_strike |-> max_pain_strike, total_pain_value |-> min_pain]
  ELSE LET test_strike == Head(strikes)
           total_pain == TotalPain(strikes_data, DOMAIN strikes_data,
                                   test_strike)
       IN IF PainLess(total_pain, min_pain)
            THEN ScanStrikes(Tail(strikes), strikes_data, total_pain,
                             test_strike)
            ELSE ScanStrikes(Tail(strikes), strikes_data, min_pain,
                             max_pain_strike)

\* ActiveTradesAgent._compute_max_pain
_compute_max_pain(options) ==
  LET by_index == ByIndex(options, << >>)
  IN [idx \in DOMAIN by_index |->
        ScanStrikes(sorted(DOMAIN by_index[idx]), by_index[idx], Inf, 0)]

\* the two functions applied to a chain
ComputePcr ==
  /\ fn_output' = [fn |-> "_compute_pcr", val |-> _compute_pcr(fn_input)]
  /\ UNCHANGED << fn_input, clock, orchvars, apivars >>

ComputeMaxPain ==
  /\ fn_output' = [fn |-> "_compute_max_pain",
                   val |-> _compute_max_pain(fn_input)]
  /\ UNCHANGED << fn_input, clock, orchvars, apivars >>

InitChain ==
  InitWith(0, 0, 0, 0) /\ fn_input \in Chains /\ fn_output = NoOutput
NextChain == ComputePcr \/ ComputeMaxPain
SpecChain == InitChain /\ [][NextChain]_vars

\* ---- DecisionMakerAgent (decision_maker_agent.py) ----
\* sentiment scores in tenths: below -0.2, between, above 0.2
SentScores == {-3, 0, 3}
Trends == {"upward", "downward", "sideways"}
RsiSignals == {"overbought", "oversold", "bullish", "bearish", "neutral"}
RiskLabels == {"low", "medium", "high"}
Buckets == << "bullish", "bearish", "neutral" >>
BucketSet == {Buckets[i] : i \in 1..Len(Buckets)}
\* VIX values around the threshold of the high-volatility regime
VixValues == {15, 25, 26}
\* the lists of at most n elements of S
SeqUpTo(S, n) == UNION {[1..k -> S] : k \in 0..n}

\* what the Decision task reads from SharedState: the sentiment score, the
\* technicals per index, the risk label, the PCR signal per index, the option
\* type of the top active contracts, and VIX
DecisionInputs ==
  [ sent_score : SentScores,
    tech : SeqUpTo([trend : Trends, rsi_signal : RsiSignals], MaxTechIndices),
    risk_label : RiskLabels,
    pcr : SeqUpTo(BucketSet, MaxPcrIndices),
    top_active : SeqUpTo(OptionTypes, MaxTopActive),
    vix : VixValues ]

Vote(signals, b) == [signals EXCEPT ![b] = @ + 1]
SentimentVote(sent_score) ==
  IF sent_score > 2 THEN "bullish"
  ELSE IF sent_score < -2 THEN "bearish" ELSE "neutral"
TechVote(idx_data) ==
  IF idx_data.trend = "upward" \/ idx_data.rsi_signal \in {"bullish", "oversold"}
    THEN "bullish"
  ELSE IF \/ idx_data.trend = "downward"
          \/ idx_data.rsi_signal \in {"bearish", "overbought"}
    THEN "bearish"
  ELSE "neutral"
RiskVote(risk_label) ==
  IF risk_label = "low" THEN "bullish"
  ELSE IF risk_label = "high" THEN "bearish" ELSE "neutral"
PcrVote(pcr_signal) ==
  IF pcr_signal = "bullish" THEN "bullish"
  ELSE IF pcr_signal = "bearish" THEN "bearish" ELSE "neutral"

\* signals after a loop adding the votes bs one by one
RECURSIVE VotesOf(_, _)
VotesOf(signals, bs) ==
  IF bs = << >> THEN signals
  ELSE VotesOf(Vote(signals, Head(bs)), Tail(bs))

\* max(signals, key=signals.get): the first bucket, in the order of the dict,
\* that no bucket exceeds
MaxKey(signals) ==
  LET i == CHOOSE k \in 1..Len(Buckets) :
             /\ \A j \in 1..Len(Buckets) :
                  signals[Buckets[j]] <= signals[Buckets[k]]
             /\ \A j \in 1..(k - 1) :
                  signals[Buckets[j]] < signals[Buckets[k]]
  IN Buckets[i]

\* round(alignment_pct * 100, 1) for alignment_pct = d / total, in tenths of
\* a percent (no quotient of the votes here falls on a tie)
AlignmentPercentage(d, total) == (2000 * d + total) \div (2 * total)
\* alignment_pct > 0.6
IsAlignedStrict(d, total) == 10 * d > 6 * total
\* alignment_pct >= 0.6
IsAligned(d, total) == 10 * d >= 6 * total

\* DecisionMakerAgent._check_alignment
_check_alignment(in) ==
  LET s0 == [b \in BucketSet |-> 0]
      s1 == Vote(s0, SentimentVote(in.sent_score))
      s2 == VotesOf(s1, [i \in 1..Len(in.tech) |-> TechVote(in.tech[i])])
      s3 == Vote(s2, RiskVote(in.risk_label))
      signals == VotesOf(s3, [i \in 1..Len(in.pcr) |-> PcrVote(in.pcr[i])])
      sum == signals["bullish"] + signals["bearish"] + signals["neutral"]
      total == IF sum = 0 THEN 1 ELSE sum
      dominant == MaxKey(signals)
  IN [ signals |-> signals, dominant |-> dominant,
       alignment_percentage |-> AlignmentPercentage(signals[dominant], total),
       is_aligned |-> IsAligned(signals[dominant], total) ]

\* the market regime of a VIX value
Regime(vix) ==
  IF vix > 25 THEN "high_volatility"
  ELSE IF vix > 18 THEN "moderate_volatility"
  ELSE IF vix < 13 THEN "low_volatility"
  ELSE "normal"

Action(a, t) == [action |-> a, type |-> t]
\* the BUY actions of a direction: one per top active contract of its option
\* type among the first three, or the fallback near support / resistance
\* the BUY actions without the fallback
BuysNoFallback(top_active, optType, side) ==
  LET first3 == SubSeq(top_active, 1, IF Len(top_active) < 3
                                        THEN Len(top_active) ELSE 3)
      picked == SelectSeq(first3, LAMBDA x : x = optType)
  IN [i \in 1..Len(picked) |-> Action("BUY", side)]
Buys(top_active, optType, side) ==
  LET first3 == SubSeq(top_active, 1, IF Len(top_active) < 3
                                        THEN Len(top_active) ELSE 3)
      picked == SelectSeq(first3, LAMBDA x : x = optType)
  IN IF picked = << >> THEN << Action("BUY", side) >>
     ELSE [i \in 1..Len(picked) |-> Action("BUY", side)]

\* the straddle is proposed in this branch of the decision logic only
ProposesHedge(is_aligned, risk_label, regime) ==
  ~(is_aligned /\ risk_label # "high") /\ regime = "high_volatility"

\* confidence * 0.7, * 1.2 capped at 0.95, in thousandths
AdjustConfidence(confidence, risk_label) ==
  IF risk_label = "high" THEN (confidence * 7) \div 10
  ELSE IF risk_label = "low"
    THEN (IF (confidence * 12) \div 10 < 950
            THEN (confidence * 12) \div 10 ELSE 950)
  ELSE confidence

\* round(confidence, 2), in thousandths
Round2(confidence) == ((confidence + 5) \div 10) * 10

\* DecisionMakerAgent._generate_recommendations; confidence in thousandths
_generate_recommendations(alignment, in) ==
  LET dominant == alignment.dominant
      is_aligned == alignment.is_aligned
      risk_label == in.risk_label
      regime == Regime(in.vix)
      directional == is_aligned /\ risk_label # "high"
      actions ==
        IF directional
          THEN IF dominant = "bullish" THEN Buys(in.top_active, "CE", "CALL")
               ELSE IF dominant = "bearish"
                 THEN Buys(in.top_active, "PE", "PUT")
               ELSE << >>
        ELSE IF ProposesHedge(is_aligned, risk_label, regime)
          THEN << Action("HEDGE", "STRADDLE") >>
        ELSE << Action("HOLD", "WAIT") >>
      confidence ==
        IF directional THEN 300 + 300
        ELSE IF ProposesHedge(is_aligned, risk_label, regime)
          THEN (IF 300 > 400 THEN 300 ELSE 400)
        ELSE 200
      primary == IF actions # << >> THEN actions[1] ELSE Action("HOLD", "")
  IN [ actions |-> actions, primary |-> primary,
       confidence |-> Round2(AdjustConfidence(confidence, risk_label)),
       market_regime |-> regime ]

\* the two steps of DecisionMakerAgent.run
CheckAlignment ==
  /\ fn_output' = [fn |-> "_check_alignment",
                   val |-> _check_alignment(fn_input)]
  /\ UNCHANGED << fn_input, clock, orchvars, apivars >>

GenerateRecommendations ==
  /\ fn_output' = [fn |-> "_generate_recommendations",
                   val |-> _generate_recommendations(
                             _check_alignment(fn_input), fn_input)]
  /\ UNCHANGED << fn_input, clock, orchvars, apivars >>

InitDecision ==
  InitWith(0, 0, 0, 0) /\ fn_input \in DecisionInputs /\ fn_output = NoOutput
NextDecision == CheckAlignment \/ GenerateRecommendations
SpecDecision == InitDecision /\ [][NextDecision]_vars

\* ---- RiskMetricsAgent (risk_metrics_agent.py) ----
\* inputs of _compute_risk_score around its thresholds: beta, sentiment score
\* and |gamma| thresholds in hundredths (gamma in thousandths), VIX and theta
\* in units
RiskScoreInputs ==
  [ kind : {"risk_score"},
    beta : {70, 80, 100, 120, 130, 150, 160},
    vix : {11, 12, 15, 20, 21, 25, 26},
    gamma : {-110, -60, 0, 50, 51, 100, 101},
    sent_score : {-60, -50, -30, -20, 0},
    theta : {-51, -50, 0} ]

NoScore == [score |-> 0, factors |-> << >>]
\* score += penalty; factors.append(reason)
Penalise(acc, penalty, reason) ==
  [score |-> acc.score + penalty, factors |-> Append(acc.factors, reason)]

\* a beta above 1.5 counted in both tiers
BetaFactorBothTiers(acc, beta) ==
  LET a == IF beta > 150 THEN Penalise(acc, 25, "High beta") ELSE acc
  IN IF beta > 120 THEN Penalise(a, 15, "Elevated beta")
     ELSE IF beta < 80 THEN Penalise(a, 5, "Low beta")
     ELSE a
BetaFactor(acc, beta) ==
  IF beta > 150 THEN Penalise(acc, 25, "High beta")
  ELSE IF beta > 120 THEN Penalise(acc, 15, "Elevated beta")
  ELSE IF beta < 80 THEN Penalise(acc, 5, "Low beta")
  ELSE acc
VixFactor(acc, vix) ==
  IF vix > 25 THEN Penalise(acc, 25, "Very high VIX")
  ELSE IF vix > 20 THEN Penalise(acc, 15, "Elevated VIX")
  ELSE IF vix < 12 THEN Penalise(acc, 5, "Low VIX")
  ELSE acc
GammaFactor(acc, g) ==
  LET gamma == IF g < 0 THEN -g ELSE g
  IN IF gamma > 100 THEN Penalise(acc, 20, "High portfolio gamma")
     ELSE IF gamma > 50 THEN Penalise(acc, 10, "Moderate gamma")
     ELSE acc
SentimentFactor(acc, sent_score) ==
  IF sent_score < -50 THEN Penalise(acc, 15, "Very negative sentiment")
  ELSE IF sent_score < -20 THEN Penalise(acc, 10, "Negative sentiment")
  ELSE acc
ThetaFactor(acc, theta) ==
  IF theta < -50 THEN Penalise(acc, 10, "High theta decay") ELSE acc

\* RiskMetricsAgent._compute_risk_score
_compute_risk_score(in) ==
  LET a1 == BetaFactor(NoScore, in.beta)
      a2 == VixFactor(a1, in.vix)
      a3 == GammaFactor(a2, in.gamma)
      a4 == SentimentFactor(a3, in.sent_score)
      a5 == ThetaFactor(a4, in.theta)
      score == IF a5.score > 100 THEN 100 ELSE a5.score
      label == IF score >= 60 THEN "high"
               ELSE IF score >= 30 THEN "medium" ELSE "low"
  IN [score |-> score, label |-> label, factors |-> a5.factors]

\* inputs of _compute_all_greeks: spot and strike by sign, the quote's iv and
\* VIX in hundredths (iv 20 is 0.2, iv 2000 is 20 percent), at most MaxQuotes
\* quotes
GreeksInputs ==
  [ kind : {"greeks"},
    spot : {-100, 0, 100},
    vix : {-500, 0, 1500},
    options_chain : SeqUpTo([strike : {-100, 0, 100},
                             iv : {-100, 0, 20, 2000},
                             type : OptionTypes], MaxQuotes) ]

\* sigma = iv / 100 if iv > 1 else iv; if sigma <= 0: sigma = vix / 100
\* (sigma in ten-thousandths)
Sigma(iv, vix) ==
  LET sigma == IF iv > 100 THEN iv ELSE iv * 100
  IN IF sigma <= 0 THEN vix ELSE sigma

ZeroedGreeks(e) == [metrics |-> "zero", error |-> e]
ComputedGreeks == [metrics |-> "computed", error |-> "none"]
\* RiskMetricsAgent._black_scholes_greeks: the metrics are computed unless S / K,
\* math.log or the division by sigma * sqrt_t raises (t is positive)
_black_scholes_greeks(S, K, sigma) ==
  IF K = 0 THEN ZeroedGreeks("ZeroDivisionError")
  ELSE IF (S = 0) \/ (S < 0 /\ K > 0) \/ (S > 0 /\ K < 0)
    THEN ZeroedGreeks("ValueError")
  ELSE IF sigma = 0 THEN ZeroedGreeks("ZeroDivisionError")
  ELSE ComputedGreeks

\* RiskMetricsAgent._compute_all_greeks, and the status of the Risk task: no
\* exception escapes it
_compute_all_greeks(in) ==
  [ greeks |-> [i \in 1..Len(in.options_chain) |->
                  _black_scholes_greeks(in.spot, in.options_chain[i].strike,
                                        Sigma(in.options_chain[i].iv, in.vix))],
    status |-> "success" ]

ComputeRiskScore ==
  /\ fn_input.kind = "risk_score"
  /\ fn_output' = [fn |-> "_compute_risk_score",
                   val |-> _compute_risk_score(fn_input)]
  /\ UNCHANGED << fn_input, clock, orchvars, apivars >>

ComputeAllGreeks ==
  /\ fn_input.kind = "greeks"
  /\ fn_output' = [fn |-> "_compute_all_greeks",
                   val |-> _compute_all_greeks(fn_input)]
  /\ UNCHANGED << fn_input, clock, orchvars, apivars >>

InitRisk ==
  /\ InitWith(0, 0, 0, 0)
  /\ fn_input \in RiskScoreInputs \cup GreeksInputs
  /\ fn_output = NoOutput
NextRisk == ComputeRiskScore \/ ComputeAllGreeks
SpecRisk == InitRisk /\ [][NextRisk]_vars

\* ---- ActiveTradesAgent (active_trades_agent.py): activity against the OI history ----
\* the chains of the activity runs: the quote of one strike with its open
\* interest, alone or beside a quote of a second strike
ActivityOis == {0, 1, 3}
ActivityQuote(strike, oi) ==
  [index |-> "nifty50", strike |-> strike, type |-> "CE", oi |-> oi,
   volume |-> 1]
ActivityChains ==
  {<< ActivityQuote(100, oi) >> : oi \in ActivityOis}
    \cup {<< ActivityQuote(100, oi), ActivityQuote(200, 3) >> : oi \in ActivityOis}

\* CycleLogger.log_oi_data: one row per quote, in the order of the chain
log_oi_data(d, options_data) ==
  [d EXCEPT !.oi_history =
     @ \o [i \in 1..Len(options_data) |->
             [strike |-> options_data[i].strike,
              option_type |-> options_data[i].type,
              oi |-> options_data[i].oi,
              volume |-> options_data[i].volume]]]

\* WHERE strike=? AND option_type=?
Matching(rows, strike, option_type) ==
  SelectSeq(rows, LAMBDA r : r.strike = strike /\ r.option_type = option_type)
\* ORDER BY timestamp DESC LIMIT ?, the rows being in the order of their inserts
Latest(rows, limit) ==
  LET n == IF Len(rows) < limit THEN Len(rows) ELSE limit
  IN [i \in 1..n |-> rows[Len(rows) + 1 - i]]
\* CycleLogger.get_oi_history
get_oi_history(d, strike, option_type, limit) ==
  Latest(Matching(d.oi_history, strike, option_type), limit)

RECURSIVE SumSeq(_)
SumSeq(xs) == IF xs = << >> THEN 0 ELSE Head(xs) + SumSeq(Tail(xs))
\* np.mean(xs) as the fraction num / den
Mean(xs) == [num |-> SumSeq(xs), den |-> Len(xs)]
One == [num |-> 1, den |-> 1]
Positive(xs) == SelectSeq(xs, LAMBDA x : x > 0)
\* [h["oi"] for h in history if h["oi"]]
Truthy(xs) == SelectSeq(xs, LAMBDA x : x # 0)
FieldOf(rows, f) == [i \in 1..Len(rows) |-> rows[i][f]]

\* avg_oi, avg_vol of the current chain of an index
ChainAverage(options, idx, f) ==
  LET idx_options == SelectSeq(options, LAMBDA o : o.index = idx)
      all == Positive(FieldOf(idx_options, f))
  IN IF all # << >> THEN Mean(all) ELSE One

\* hist_avg_oi, hist_avg_vol of one quote
HistAverage(d, options, opt, f) ==
  LET history == get_oi_history(d, opt.strike, opt.type, 5)
      hist == Truthy(FieldOf(history, f))
  IN IF history # << >> /\ hist # << >> THEN Mean(hist)
     ELSE ChainAverage(options, opt.index, f)

\* round(x / avg, 2) if avg > 0 else 0, in hundredths
Ratio(x, avg) ==
  IF avg.num > 0 THEN (200 * x * avg.den + avg.num) \div (2 * avg.num) ELSE 0

\* ActiveTradesAgent._score_options: per quote, the averages it is compared
\* with and its ratios
_score_options(d, options) ==
  [i \in 1..Len(options) |->
     LET opt == options[i]
         hist_avg_oi == HistAverage(d, options, opt, "oi")
         hist_avg_vol == HistAverage(d, options, opt, "volume")
     IN [strike |-> opt.strike, type |-> opt.type,
         hist_avg_oi |-> hist_avg_oi, hist_avg_vol |-> hist_avg_vol,
         oi_ratio |-> Ratio(opt.oi, hist_avg_oi),
         vol_ratio |-> Ratio(opt.volume, hist_avg_vol)]]

\* ActiveTradesAgent.run, once per cycle: store the chain to the history, then
\* score it
ActiveTradesRun(options_chain) ==
  /\ cycle_count < MaxActivityCycles
  /\ cycle_count' = cycle_count + 1
  /\ db' = log_oi_data(db, options_chain)
  /\ fn_input' = options_chain
  /\ fn_output' = [fn |-> "_score_options",
                   val |-> _score_options(db', options_chain)]
  /\ UNCHANGED << clock, ready, tasks, st, running, scheduler_task,
                  latest_result, on_cycle_complete, faults, reqs, apivars >>

InitActivity ==
  InitWith(0, 0, 0, 0) /\ fn_input = NoInput /\ fn_output = NoOutput
NextActivity == \E options_chain \in ActivityChains : ActiveTradesRun(options_chain)
SpecActivity == InitActivity /\ [][NextActivity]_vars

\* ---- ActiveTradesAgent (active_trades_agent.py): OI buildup and unwinding ----
\* signals[:10]
SignalCap == 10
\* a scored quote of open interest 100, so that change_oi is its
\* oi_change_pct; its place in the chain is its strike
ScoredOption(i, pct) ==
  [strike |-> 100 * i, type |-> "CE", index |-> "nifty50",
   change_oi |-> pct, oi_change_pct |-> pct]
ScoredOver(Pcts, n) ==
  UNION { {[i \in 1..k |-> ScoredOption(i, f[i])] : f \in [1..k -> Pcts]} :
          k \in 0..n }
\* the scored chains: up to MaxScored quotes that all qualify, and up to
\* MaxMixed quotes of which some change too little
ScoredLists ==
  ScoredOver({25, -30}, MaxScored) \cup ScoredOver({3, 10, 25, -30}, MaxMixed)

Abs(x) == IF x < 0 THEN -x ELSE x
IsBuildup(opt) == opt.change_oi > 0 /\ opt.oi_change_pct > 20
IsUnwinding(opt) == opt.change_oi < 0 /\ opt.oi_change_pct < -20
\* the quotes the loop does not skip
Qualifies(opt) ==
  ~(Abs(opt.oi_change_pct) < 5) /\ (IsBuildup(opt) \/ IsUnwinding(opt))
SignalOf(opt) ==
  [strike |-> opt.strike, type |-> opt.type, index |-> opt.index,
   signal |-> IF IsBuildup(opt) THEN "buildup" ELSE "unwinding",
   oi_change |-> opt.change_oi, oi_change_pct |-> opt.oi_change_pct]

\* signals[:n]
FirstN(signals, n) ==
  SubSeq(signals, 1, IF Len(signals) < n THEN Len(signals) ELSE n)

\* ActiveTradesAgent._detect_buildup
_detect_buildup(scored_options) ==
  LET kept == SelectSeq(scored_options, Qualifies)
      signals == [i \in 1..Len(kept) |-> SignalOf(kept[i])]
  IN FirstN(signals, SignalCap)

DetectBuildup ==
  /\ fn_output' = [fn |-> "_detect_buildup", val |-> _detect_buildup(fn_input)]
  /\ UNCHANGED << fn_input, clock, orchvars, apivars >>

InitBuildup ==
  InitWith(0, 0, 0, 0) /\ fn_input \in ScoredLists /\ fn_output = NoOutput
NextBuildup == DetectBuildup
SpecBuildup == InitBuildup /\ [][NextBuildup]_vars

\* ---- the properties ----
SequentialAgents == {DataAgent, DecisionAgent, MonitorAgent}
ParallelSet == {ParallelAgents[i] : i \in 1..Len(ParallelAgents)}

\* event e of agent a stands at position i of the cycle's events
Is(ev, i, e, a) == ev[i].e = e /\ ev[i].a = a
\* ... and somewhere before position i
Before(ev, i, E, a) == \E j \in 1..(i - 1) : ev[j].e \in E /\ ev[j].a = a
Has(ev, e, a) == \E i \in 1..Len(ev) : Is(ev, i, e, a)
HasS(ev, e, a, x) == \E i \in 1..Len(ev) : ev[i] = Ev(e, a, x)
\* the cycle whose events are ev has ended (through Finalize or the except
\* clause), so the task's result is this cycle's result
Ended(ev) == Has(ev, "log_cycle_end", "")
\* an exception escaped the wrapper of a task of a sequential stage
SeqEscaped(ev) == \E a \in SequentialAgents : Has(ev, "escape", a)

\* the order of the tasks up to the Monitor stage
TasksInOrder(ev) ==
  \A i \in 1..Len(ev) :
    /\ \A p \in ParallelSet :
         Is(ev, i, "start", p) => Before(ev, i, {"rec"}, DataAgent)
    /\ Is(ev, i, "start", DecisionAgent) =>
         \A p \in ParallelSet : Before(ev, i, {"log", "escape"}, p)
    /\ Is(ev, i, "start", MonitorAgent) =>
         Before(ev, i, {"rec"}, DecisionAgent)

\* C1 as stated: in every cycle no parallel-stage task starts before the Data
\* task has been recorded, Decision starts only after every parallel-stage
\* task has settled, Monitor starts only after Decision has been recorded,
\* and end_cycle is called only after Monitor has been recorded.
C1_StagesInOrder ==
  \A t \in TaskIds :
    LET ev == tasks[t].ev
    IN /\ TasksInOrder(ev)
       /\ \A i \in 1..Len(ev) :
            Is(ev, i, "end_cycle", "") => Before(ev, i, {"rec"}, MonitorAgent)

\* C1 amended: the tasks run in that order in every cycle, and end_cycle is
\* called only after Monitor has been recorded or, in the except clause,
\* after an exception has escaped the wrapper of an earlier sequential task
\* (the cycle then ends with status error and skips its remaining stages).
C1_StagesInOrderOrError ==
  \A t \in TaskIds :
    LET ev == tasks[t].ev
    IN /\ TasksInOrder(ev)
       /\ \A i \in 1..Len(ev) :
            Is(ev, i, "end_cycle", "") =>
              \/ Before(ev, i, {"rec"}, MonitorAgent)
              \/ /\ \E a \in SequentialAgents : Before(ev, i, {"escape"}, a)
                 /\ Ended(ev) => tasks[t].result.status = "error"

\* C1 witness: a cycle has gone through all six stages and ended completed,
\* and another cycle has ended in the except clause.
C1_Witness ==
  /\ \E t \in TaskIds :
       /\ tasks[t].result.status = "completed"
       /\ Ended(tasks[t].ev)
       /\ \A a \in AgentNames : Has(tasks[t].ev, "rec", a)
  /\ \E t \in TaskIds :
       /\ tasks[t].result.status = "error"
       /\ Ended(tasks[t].ev)

\* C2: fork-join isolation: in every cycle whose join is over, every task of
\* the parallel stage has run to its end whatever its siblings did, each one
\* that returned is recorded with status success (each one that raised with
\* status error), and no failure inside the parallel stage makes the cycle
\* end with status error: a cycle ends in error only when an exception
\* escaped a sequential stage.
C2_ForkJoinIsolation ==
  \A t \in TaskIds :
    LET ev == tasks[t].ev
    IN /\ Has(ev, "joined", "") =>
            \A p \in ParallelSet :
              /\ Has(ev, "ran", p)
              /\ HasS(ev, "ran", p, "returned") => HasS(ev, "rec", p, "success")
              /\ HasS(ev, "ran", p, "raised") => HasS(ev, "rec", p, "error")
       /\ Ended(ev) /\ ~SeqEscaped(ev) => tasks[t].result.status = "completed"

\* C2 witness: a cycle ended completed in which one parallel task raised and
\* the other three are recorded with status success.
C2_Witness ==
  \E t \in TaskIds : \E p \in ParallelSet :
    /\ Ended(tasks[t].ev)
    /\ tasks[t].result.status = "completed"
    /\ HasS(tasks[t].ev, "ran", p, "raised")
    /\ \A q \in ParallelSet \ {p} : HasS(tasks[t].ev, "rec", q, "success")

\* C3 as stated: a cycle of the scheduler loop that is in flight when stop()
\* is called is not cancelled; it runs its remaining stages and is logged
\* through log_cycle_end.  So no loop task ends with a cycle begun and not
\* ended.
C3_InFlightCycleFinishes ==
  \A t \in TaskIds :
    tasks[t].kind = "loop" /\ tasks[t].pc = "done" /\ tasks[t].n > 0
      => Ended(tasks[t].ev) \/ tasks[t].result.status = "raised"

\* C4 as stated: between a cycle's start_cycle() and its end_cycle() no other
\* cycle calls start_cycle(): a cycle suspended in its join still owns the
\* SharedState.
C4_OneCycleOwnsState ==
  \A t \in TaskIds : tasks[t].pc = "join" => st.owner = tasks[t].n

\* C5 as stated: the row of a cycle that ended in the except clause (its
\* persisted state carries the error message) has status error.
C5_FailedCycleLoggedAsError ==
  \A cid \in DOMAIN db.cycles :
    db.cycles[cid].error => db.cycles[cid].status = "error"

Rows == db.agent_outputs
RowsOf(n, a) ==
  {i \in 1..Len(Rows) : Rows[i].n = n /\ Rows[i].agent_name = a}

\* C6 as stated: every invocation of the wrapper that ran to its end, the
\* task having returned or raised, built one TaskOutput with status success
\* or error and appended exactly one row for it, with that status, under the
\* cycle id of the cycle that invoked the task.
C6_OneOutputPerInvocation ==
  /\ \A i \in 1..Len(Rows) : Rows[i].cycle_id = Rows[i].of
  /\ \A t \in TaskIds : \A a \in AgentNames :
       LET ev == tasks[t].ev
       IN Has(ev, "log", a) =>
            /\ Cardinality(RowsOf(tasks[t].n, a)) = 1
            /\ \A i \in RowsOf(tasks[t].n, a) :
                 /\ HasS(ev, "ran", a, "returned") => Rows[i].status = "success"
                 /\ HasS(ev, "ran", a, "raised") => Rows[i].status = "error"

Count(seq, x) == Cardinality({i \in 1..Len(seq) : seq[i] = x})

\* C7 as stated: when a task of a sequential stage raises, the cycle is not
\* aborted: all stages run, the result has status completed and its errors
\* list has one entry naming that task.
C7_SequentialFailureRecovered ==
  \A t \in TaskIds : \A a \in SequentialAgents :
    LET ev == tasks[t].ev
    IN Ended(ev) /\ ~SeqEscaped(ev) /\ HasS(ev, "ran", a, "raised") =>
         /\ tasks[t].result.status = "completed"
         /\ \A b \in AgentNames : Has(ev, "ran", b)
         /\ Count(tasks[t].result.errors, a) = 1

\* before 09:15 or after 15:30
Outside(now) == now < MARKET_OPEN \/ now > MARKET_CLOSE

\* C8: scheduler gating: every cycle started by the scheduler loop began at
\* a time inside the trading window (a tick outside it starts none), while a
\* run_once caller has begun its cycle whatever the time was.
C8_SchedulerGating ==
  \A t \in TaskIds :
    /\ tasks[t].kind = "loop" /\ tasks[t].n > 0
         => ~Outside(NowTime(tasks[t].t0))
    /\ tasks[t].kind = "run_once" /\ tasks[t].pc # "new" => tasks[t].n > 0
    /\ tasks[t].kind = "run_once" /\ tasks[t].result.status = "completed"
         => \A a \in AgentNames : Has(tasks[t].ev, "ran", a)

\* C8 witness: the loop has ticked outside the window and sleeps without
\* having run any cycle, and run_once has run a full cycle outside the window.
C8_Witness ==
  /\ \E t \in TaskIds :
       /\ tasks[t].kind = "loop" /\ tasks[t].pc = "sleep" /\ tasks[t].n = 0
       /\ Outside(NowTime(tasks[t].since))
  /\ \E t \in TaskIds :
       /\ tasks[t].kind = "run_once" /\ tasks[t].result.status = "completed"
       /\ Outside(NowTime(tasks[t].t0))

\* the scheduler loops that can still run a tick: not ended and not cancelled
AliveLoops ==
  {t \in TaskIds : /\ tasks[t].kind = "loop"
                   /\ tasks[t].pc # "done"
                   /\ ~tasks[t].must_cancel}

\* C9: start is idempotent: a start() that finds the orchestrator running
\* creates no task and leaves the loop task, its interval and _running as
\* they are, so at most one scheduler loop is alive at any time, and it is
\* the one _scheduler_task names when _running is set.
C9_StartIdempotent ==
  /\ [](/\ Cardinality(AliveLoops) <= 1
        /\ running => AliveLoops = {scheduler_task})
  /\ [][ running /\ (\E i \in Intervals : Start(i)) =>
           /\ tasks' = tasks
           /\ scheduler_task' = scheduler_task
           /\ running' ]_vars

\* C9 witness: both calls of start have been served, the orchestrator is
\* running and only one loop task was ever created: the second call found it
\* running and did nothing.
C9_Witness ==
  /\ reqs.start = 0
  /\ \A i \in 1..Len(ready) : ready[i].k # "start"
  /\ running
  /\ Cardinality({t \in TaskIds : tasks[t].kind = "loop"}) = 1
  /\ reqs.stop = MaxStops

StopReturned(s) == tasks[s].kind = "stop" /\ tasks[s].pc = "done"

\* what holds of the loop whenever stop() has returned
StopEndedLoop(s) ==
  /\ tasks[s].target # 0 => tasks[tasks[s].target].pc = "done"
  /\ tasks[s].exc = ""

\* C10 as stated: when stop() returns the loop task has terminated, the
\* cancellation has not reached the caller, running is false, and no loop is
\* left to start a cycle while running is false.
C10_StopEndsLoop ==
  /\ \A s \in TaskIds :
       StopReturned(s) => StopEndedLoop(s) /\ ~tasks[s].ret_running
  /\ ~running => AliveLoops = {}

\* C10 amended: ... running is false when stop() returns unless start() was
\* called while stop() was waiting for the loop task; _scheduler_task is then
\* a new loop, and the loop that stop() cancelled has terminated all the same.
C10_StopEndsLoopUnlessRestarted ==
  /\ \A s \in TaskIds :
       StopReturned(s) =>
         /\ StopEndedLoop(s)
         /\ tasks[s].ret_running => tasks[s].ret_sched # tasks[s].target
  /\ ~running => AliveLoops = {}

\* C10 witness: stop() has returned after cancelling a loop task that was
\* suspended, and the orchestrator is not running.
C10_Witness ==
  \E s \in TaskIds :
    /\ StopReturned(s)
    /\ tasks[s].target # 0
    /\ tasks[tasks[s].target].at \in {"sleep", "join", "callback"}
    /\ ~tasks[s].ret_running
    /\ ~running

\* stop() has cancelled loop task t
StopCalledOn(t) ==
  \E s \in TaskIds : /\ tasks[s].kind = "stop"
                     /\ tasks[s].target = t
                     /\ tasks[s].pc \in {"await", "done"}

\* C11: no error ends the scheduler loop: a loop task has ended only if
\* stop() cancelled it, and a loop that leaves the sleep of its error handler
\* without having been cancelled goes on to its next tick (an idle tick or a
\* new cycle).
C11_OnlyStopEndsLoop ==
  /\ [](\A t \in TaskIds :
          tasks[t].kind = "loop" /\ tasks[t].pc = "done" => StopCalledOn(t))
  /\ [][ \A t \in TaskIds :
           /\ tasks[t].kind = "loop"
           /\ tasks[t].pc = "errsleep"
           /\ tasks'[t].pc # "errsleep"
           => \/ tasks'[t].pc \in {"sleep", "join", "callback"}
              \/ tasks'[t].pc = "done" /\ tasks[t].must_cancel ]_vars

\* C11 witness: run_single_cycle raised in the loop (the result of its latest
\* cycle is an exception), and the loop has since run its next tick and sleeps
\* until the one after.
C11_Witness ==
  \E t \in TaskIds :
    /\ tasks[t].kind = "loop"
    /\ tasks[t].result.status = "raised"
    /\ tasks[t].pc = "sleep"
    /\ ~tasks[t].must_cancel

\* the positions of the callback's invocations among a cycle's events
Calls(ev) == {i \in 1..Len(ev) : ev[i].e = "callback"}
\* the cycle went through Finalize
CompletedCycle(ev) == HasS(ev, "log_cycle_end", "", "completed")
CallbackRaised(ev) == HasS(ev, "callback_end", "", "raised")

\* C12: the registered callback is invoked once for each cycle that
\* completes, with the completed result, after Monitor has been recorded and
\* the cycle finalized; when the callback raises, run_single_cycle returns
\* the completed result all the same and, as the callback ends, _latest_result
\* holds that result.
C12_LatestResultHoldsCallbackResult ==
  /\ [](\A t \in TaskIds :
          LET ev == tasks[t].ev
          IN /\ Cardinality(Calls(ev)) <= 1
             /\ \A i \in Calls(ev) :
                  /\ ev[i].s = "completed"
                  /\ Before(ev, i, {"rec"}, MonitorAgent)
                  /\ Before(ev, i, {"log_cycle_end"}, "")
             /\ CallbackRaised(ev) =>
                  /\ tasks[t].pc \in {"sleep", "done"}
                  /\ tasks[t].exc = ""
                  /\ tasks[t].result.status = "completed"
                  /\ tasks[t].result.cycle_id = tasks[t].cid)
  /\ [][ \A t \in TaskIds :
           /\ on_cycle_complete /\ ~CompletedCycle(tasks[t].ev)
              /\ CompletedCycle(tasks'[t].ev)
              => Cardinality(Calls(tasks'[t].ev)) = 1
           /\ ~CallbackRaised(tasks[t].ev) /\ CallbackRaised(tasks'[t].ev)
              => latest_result' = tasks'[t].result ]_vars

\* the names of the recorded outputs cs, in call order
NamesOf(cs) == [i \in 1..Len(cs) |-> cs[i].agent_name]
\* the failure entries of the recorded outputs cs, in call order
FailuresOf(cs) ==
  LET f == SelectSeq(cs, LAMBDA x : x.status = "error")
  IN [i \in 1..Len(f) |-> [agent |-> f[i].agent_name, error |-> f[i].error]]
\* the list SharedState holds under key
ListAt(key) == heap[obj.state[key].v]

\* C13: within a cycle, after any sequence of record_agent_output calls
\* (with set, update and end_cycle calls among them), the completed list is
\* the names of the recorded outputs in call order, failed ones included, and
\* the failure list is the entries (name, error) of those with status error,
\* in call order.
C13_RecordedInCallOrder ==
  InCycle =>
    /\ ListAt("agents_completed") = NamesOf(calls)
    /\ ListAt("errors") = FailuresOf(calls)

\* C13 witness: a failed output and then a successful one have been recorded
\* in the cycle.
C13_Witness ==
  /\ InCycle
  /\ Len(calls) = 2
  /\ calls[1].status = "error"
  /\ calls[2].status = "success"
  /\ last_op = "record_agent_output"

\* the keys callers and record_agent_output write
WrittenKeys == ApiDataKeys \cup {AgentKey(a) : a \in ApiAgents}
\* what get returns for a key that is not there
Default == Scalar(None, "default")

\* C14: no cross-cycle leakage: right after start_cycle() the container holds
\* the new cycle's id and start time and empty completed and failure lists
\* and nothing else, get finds no written key and the full state shows none;
\* and at any time every written value in the container was written in the
\* current cycle.
C14_NoCrossCycleLeakage ==
  /\ last_op = "start_cycle" =>
       /\ DOMAIN obj.state = BaseKeys
       /\ obj.state["cycle_id"] = Scalar(Strftime(clock), "")
       /\ obj.cycle_id = Strftime(clock)
       /\ obj.state["cycle_start"] = Scalar(clock, "")
       /\ ListAt("agents_completed") = << >>
       /\ ListAt("errors") = << >>
       /\ \A k \in WrittenKeys : SharedState_get(obj, k, Default) = Default
       /\ DOMAIN DeepValue(get_full_state(obj), heap) = BaseKeys
  /\ \A k \in WrittenKeys \cap DOMAIN obj.state : obj.state[k].v = obj.n

\* C14 witness: start_cycle() has just begun the second cycle, after a first
\* cycle in which a key was set and a task output recorded (the snapshot of
\* its end shows them).
C14_Witness ==
  /\ last_op = "start_cycle"
  /\ obj.n = 2
  /\ snapshot.taken
  /\ "market_data" \in DOMAIN snapshot.map
  /\ AgentKey(DataAgent) \in DOMAIN snapshot.map
  /\ snapshot.deep["agents_completed"].items # << >>

\* C15 as stated: the snapshot end_cycle() returned is an immutable copy: what
\* it shows (the items of its completed and failure lists included) stays
\* what it showed when it was returned, whatever SharedState operation
\* follows, and it holds no list object of SharedState, so that changing it
\* cannot change SharedState.
C15_SnapshotIsImmutableCopy ==
  snapshot.taken =>
    /\ DeepValue(snapshot.map, heap) = snapshot.deep
    /\ ListsOf(snapshot.map) \cap ListsOf(obj.state) = {}

\* C16 as stated: for every cycle written with log_cycle_start and
\* log_cycle_end, get_cycle_detail(cycle_id) returns the same cycle_id, the
\* status with which the cycle ended (completed or error) and the duration
\* stamped in the cycle's final state.
C16_CycleLogRoundTrip ==
  \A t \in TaskIds :
    LET ev == tasks[t].ev
        d == get_cycle_detail(db, tasks[t].cid)
    IN Ended(ev) =>
         /\ d.found
         /\ d.cycle_id = tasks[t].cid
         /\ \A x \in {"completed", "error"} :
              HasS(ev, "log_cycle_end", "", x) => d.status = x
         /\ d.duration_ms = HasS(ev, "end_cycle", "", "stamped")

\* the contracts of index idx in the chain, by position
OfIndex(chain, idx) == {i \in 1..Len(chain) : chain[i].index = idx}
\* the sum of f[i] over the positions in S
RECURSIVE SumOver(_, _)
SumOver(f, S) ==
  IF S = {} THEN 0
  ELSE LET i == CHOOSE x \in S : TRUE IN f[i] + SumOver(f, S \ {i})
\* the total call open interest of index idx
CallOi(chain, idx) ==
  SumOver([i \in 1..Len(chain) |->
             IF chain[i].type = "CE" THEN chain[i].oi ELSE 0],
          OfIndex(chain, idx))

\* C17 as stated: for every index of the chain whose total call open
\* interest is 0, _compute_pcr returns oi_pcr = 0 and the signal neutral.
C17_ZeroCallOiIsNeutral ==
  fn_output.fn = "_compute_pcr" =>
    \A idx \in DOMAIN fn_output.val :
      CallOi(fn_input, idx) = 0 =>
        /\ fn_output.val[idx].oi_pcr = 0
        /\ fn_output.val[idx].signal = "neutral"

\* the total pain of strike s for index idx: the call open interest of the
\* lower strikes and the put open interest of the higher ones, by distance
PainAt(chain, idx, s) ==
  SumOver([i \in 1..Len(chain) |->
             IF chain[i].type = "CE" /\ chain[i].strike < s
               THEN (s - chain[i].strike) * chain[i].oi
             ELSE IF chain[i].type = "PE" /\ chain[i].strike > s
               THEN (chain[i].strike - s) * chain[i].oi
             ELSE 0],
          OfIndex(chain, idx))
StrikesOf(chain, idx) == {chain[i].strike : i \in OfIndex(chain, idx)}
\* the strikes of index idx whose total pain is minimal
MinPainStrikes(chain, idx) ==
  {s \in StrikesOf(chain, idx) :
     \A x \in StrikesOf(chain, idx) :
       PainAt(chain, idx, s) <= PainAt(chain, idx, x)}

\* C18: for every index of the chain _compute_max_pain returns a strike of
\* that index whose total pain is minimal among the index's strikes, the
\* lowest one when several strikes share the minimal pain.
C18_MaxPainIsLowestMinimum ==
  fn_output.fn = "_compute_max_pain" =>
    /\ DOMAIN fn_output.val = {fn_input[i].index : i \in 1..Len(fn_input)}
    /\ \A idx \in DOMAIN fn_output.val :
         LET r == fn_output.val[idx]
             M == MinPainStrikes(fn_input, idx)
         IN /\ r.max_pain_strike \in M
            /\ \A s \in M : r.max_pain_strike <= s
            /\ r.total_pain_value = PainAt(fn_input, idx, r.max_pain_strike)

\* C18 witness: an index with three strikes, two of which share the minimal
\* pain while the third has more, and _compute_max_pain has been applied.
C18_Witness ==
  /\ fn_output.fn = "_compute_max_pain"
  /\ \E idx \in DOMAIN fn_output.val :
       /\ Cardinality(StrikesOf(fn_input, idx)) = 3
       /\ Cardinality(MinPainStrikes(fn_input, idx)) = 2

\* the votes of an alignment result, and the result of the last call of fn
TotalVotes(signals) ==
  signals["bullish"] + signals["bearish"] + signals["neutral"]
FnReturned(fn) == fn_output.fn = fn
FourToOne(signals) ==
  signals = [b \in BucketSet |-> IF b = "bullish" THEN 4
                                 ELSE IF b = "bearish" THEN 1 ELSE 0]

C20_HighVixProposesStraddle ==
  (FnReturned("_generate_recommendations") /\ fn_input.vix > 25) =>
    /\ fn_output.val.primary = Action("HEDGE", "STRADDLE")
    /\ \A i \in 1..Len(fn_output.val.actions) :
         fn_output.val.actions[i].action # "BUY"

\* the reasons the thresholds of the risk score trigger for an input, and the
\* penalty of each
TriggeredReasons(in) ==
  LET g == IF in.gamma < 0 THEN -in.gamma ELSE in.gamma
  IN  {x \in {"High beta"} : in.beta > 150}
 \cup {x \in {"Elevated beta"} : in.beta > 120 /\ in.beta <= 150}
 \cup {x \in {"Low beta"} : in.beta < 80}
 \cup {x \in {"Very high VIX"} : in.vix > 25}
 \cup {x \in {"Elevated VIX"} : in.vix > 20 /\ in.vix <= 25}
 \cup {x \in {"Low VIX"} : in.vix < 12}
 \cup {x \in {"High portfolio gamma"} : g > 100}
 \cup {x \in {"Moderate gamma"} : g > 50 /\ g <= 100}
 \cup {x \in {"Very negative sentiment"} : in.sent_score < -50}
 \cup {x \in {"Negative sentiment"} : in.sent_score < -20 /\ in.sent_score >= -50}
 \cup {x \in {"High theta decay"} : in.theta < -50}
PenaltyOf(reason) ==
  CASE reason \in {"High beta", "Very high VIX"} -> 25
    [] reason = "High portfolio gamma" -> 20
    [] reason \in {"Elevated beta", "Elevated VIX", "Very negative sentiment"} -> 15
    [] reason \in {"Moderate gamma", "Negative sentiment", "High theta decay"} -> 10
    [] OTHER -> 5
RECURSIVE SumPenalties(_)
SumPenalties(S) ==
  IF S = {} THEN 0
  ELSE LET x == CHOOSE y \in S : TRUE
       IN PenaltyOf(x) + SumPenalties(S \ {x})

\* C21: for every input of _compute_risk_score the score is the sum of the
\* penalties of the triggered thresholds (at most one tier per factor), lies
\* in 0..100, the label is low below 30, medium from 30 below 60 and high
\* otherwise, and the factors list holds exactly one reason per triggered
\* penalty.
C21_RiskScoreIsSumOfPenalties ==
  FnReturned("_compute_risk_score") =>
    LET r == fn_output.val
        want == TriggeredReasons(fn_input)
    IN /\ r.score = SumPenalties(want)
       /\ r.score \in 0..100
       /\ r.label = (IF r.score < 30 THEN "low"
                     ELSE IF r.score < 60 THEN "medium" ELSE "high")
       /\ {r.factors[i] : i \in 1..Len(r.factors)} = want
       /\ Len(r.factors) = Cardinality(want)

\* _compute_risk_score has returned for an input that triggers the top tier of
\* every factor
C21_Witness ==
  /\ FnReturned("_compute_risk_score")
  /\ Len(fn_output.val.factors) = 5
  /\ fn_output.val.score = 95
  /\ fn_output.val.label = "high"

\* C22: every quote whose Black-Scholes inputs are degenerate (spot <= 0,
\* strike <= 0, or volatility <= 0 with the quote's IV and VIX both
\* non-positive) gets a Greeks result with all metrics zero and an error field
\* carrying the failure reason, and the Risk task completes with status
\* success.
C22_DegenerateInputsGiveZeroedGreeks ==
  FnReturned("_compute_all_greeks") =>
    /\ fn_output.val.status = "success"
    /\ \A i \in 1..Len(fn_input.options_chain) :
         LET q == fn_input.options_chain[i]
         IN (\/ fn_input.spot <= 0
             \/ q.strike <= 0
             \/ (q.iv <= 0 /\ fn_input.vix <= 0)) =>
              /\ fn_output.val.greeks[i].metrics = "zero"
              /\ fn_output.val.greeks[i].error # "none"

\* the rows of the history that a run found there, and two equal fractions
RowsBefore == SubSeq(db.oi_history, 1, Len(db.oi_history) - Len(fn_input))
SameMean(a, b) == a.num * b.den = b.num * a.den

\* C23: the historical average used in a quote's activity score is the mean of
\* the last 5 samples persisted for its strike and option type; in a cycle
\* where no sample of that strike and type was persisted before the cycle
\* began, the current chain's average of the quote's index is used instead.
C23_HistoricalAverageOfLastFive ==
  FnReturned("_score_options") =>
    \A i \in 1..Len(fn_input) :
      LET q == fn_input[i]
          prior == Matching(RowsBefore, q.strike, q.type)
          last5 == Latest(Matching(db.oi_history, q.strike, q.type), 5)
          used == fn_output.val[i].hist_avg_oi
      IN IF prior = << >>
           THEN SameMean(used, ChainAverage(fn_input, q.index, "oi"))
           ELSE SameMean(used, Mean(FieldOf(last5, "oi")))

\* C24: when more than 10 quotes qualify as buildup or unwinding signals, the
\* signals returned by _detect_buildup are the 10 with the largest absolute OI
\* percentage change among all qualifying quotes.
C24_TopTenByAbsoluteChange ==
  FnReturned("_detect_buildup") =>
    LET qualifying == SelectSeq(fn_input, Qualifies)
        returned == {fn_output.val[i].strike : i \in 1..Len(fn_output.val)}
    IN Len(qualifying) > 10 =>
         /\ Len(fn_output.val) = 10
         /\ Cardinality(returned) = 10
         /\ \A i \in 1..Len(qualifying) :
              /\ qualifying[i].strike \notin returned
              => \A j \in 1..Len(qualifying) :
                   qualifying[j].strike \in returned =>
                     Abs(qualifying[j].oi_change_pct)
                       >= Abs(qualifying[i].oi_change_pct)

\* C25: for every combination of alignment, risk label and VIX the confidence
\* is base 0.3, plus 0.3 only when the signals are aligned and the risk label
\* is low, then times 0.7 when the risk label is high, or times 1.2 capped at
\* 0.95 when it is low; it never exceeds 0.95 (confidence in thousandths).
C25_ConfidenceFormula ==
  FnReturned("_generate_recommendations") =>
    LET aligned == _check_alignment(fn_input).is_aligned
        risk == fn_input.risk_label
        base == IF aligned /\ risk = "low" THEN 600 ELSE 300
        scaled == IF risk = "high" THEN (base * 7) \div 10
                  ELSE IF risk = "low" THEN (base * 12) \div 10
                  ELSE base
    IN /\ fn_output.val.confidence = (IF scaled > 950 THEN 950 ELSE scaled)
       /\ fn_output.val.confidence <= 950

\* C30 (as stated): for every combination of alignment result, risk label and
\* VIX the result has a non-empty list of actions and its primary action is
\* the first action of that list.
C30_ActionsNeverEmpty ==
  FnReturned("_generate_recommendations") =>
    /\ fn_output.val.actions # << >>
    /\ fn_output.val.primary = fn_output.val.actions[1]

\* C30 (amended): the primary action is the first action of the list whenever
\* the list is not empty; the list is empty exactly when the signals are
\* aligned on the neutral bucket and the risk label is not high, and the
\* primary action is then a HOLD.
C30_PrimaryIsFirstActionOrHold ==
  FnReturned("_generate_recommendations") =>
    LET r == fn_output.val
        a == _check_alignment(fn_input)
    IN /\ r.actions # << >> => r.primary = r.actions[1]
       /\ r.actions = << >> <=>
            (a.is_aligned /\ fn_input.risk_label # "high" /\ a.dominant = "neutral")
       /\ r.actions = << >> => r.primary.action = "HOLD"

\* recommendations were generated for signals aligned on neutral: no action
\* is listed and the primary action is the HOLD
C30_Witness ==
  /\ FnReturned("_generate_recommendations")
  /\ fn_output.val.actions = << >>
  /\ fn_output.val.primary.action = "HOLD"

\* C26: the Error state is reachable from every stage: in every cycle that
\* has ended, if an exception escaped the wrapper of a task, a task of the
\* parallel stage included, the cycle ended with status error and not
\* completed.
C26_EscapeInAnyStageEndsInError ==
  \A t \in TaskIds :
    LET ev == tasks[t].ev
    IN (Ended(ev) /\ \E a \in AgentNames : Has(ev, "escape", a)) =>
         /\ tasks[t].result.status = "error"
         /\ ~CompletedCycle(ev)

\* C27: any two cycles started by the orchestrator have distinct cycle ids,
\* also when they start within the same clock second, so the insert of
\* log_cycle_start succeeds for every cycle: the cycle a task has begun owns
\* the row of its cycle id, and two tasks in different cycles hold different
\* ids.
C27_CycleIdsAreDistinct ==
  /\ \A t \in TaskIds :
       tasks[t].n > 0 =>
         /\ tasks[t].cid \in DOMAIN db.cycles
         /\ db.cycles[tasks[t].cid].n = tasks[t].n
  /\ \A t, u \in TaskIds :
       (tasks[t].n > 0 /\ tasks[u].n > 0 /\ tasks[t].n # tasks[u].n)
         => tasks[t].cid # tasks[u].cid

\* C28: in every cycle the Risk task reads the 'sentiment' key only after the
\* Sentiment task of the same cycle has run: whenever Sentiment returned,
\* having written its result, the value Risk read is the one its own cycle's
\* Sentiment wrote.
C28_RiskReadsOwnSentiment ==
  \A t \in TaskIds :
    LET ev == tasks[t].ev
    IN \A i \in 1..Len(ev) :
         Is(ev, i, "read", "risk_metrics") =>
           /\ Before(ev, i, {"ran"}, "sentiment")
           /\ HasS(ev, "ran", "sentiment", "returned") => ev[i].s = "own"

\* C28 witness: a cycle in which Sentiment returned and Risk then read the
\* value of its own cycle.
C28_Witness ==
  \E t \in TaskIds :
    /\ HasS(tasks[t].ev, "ran", "sentiment", "returned")
    /\ HasS(tasks[t].ev, "read", "risk_metrics", "own")

\* C29: when the Monitor stage reads the cycle state, cycle_duration_ms has
\* already been stamped into SharedState, so its checks see the duration of
\* the cycle and not a missing value defaulting to 0.
C29_MonitorSeesDuration ==
  \A t \in TaskIds :
    \A i \in 1..Len(tasks[t].ev) :
      Is(tasks[t].ev, i, "read", "monitor") => tasks[t].ev[i].s = "stamped"

====
